---- MODULE Spec2Model ----
(***************************************************************************)
(* Model of the error-recovery core of the LinkedIn auto job applier:      *)
(* modules/error_recovery.py (ErrorRecoveryConfig, RetryStrategy,          *)
(* ErrorRecoveryManager) and the cancellation entry point of               *)
(* modules/automation_manager.py.                                          *)
(*                                                                         *)
(* One worker thread runs attempt_with_recovery calls one after another.   *)
(* The host (GUI thread) may call request_resume and                       *)
(* request_cancel_current at any moment.  The wrapped action and the       *)
(* error detector read the browser; their results are inputs chosen by     *)
(* the environment.  Durations are counted in ticks of the CAPTCHA wait    *)
(* timer; backoff values are whole seconds and the multiplier is the       *)
(* shipped 2.0.                                                            *)
(***************************************************************************)
EXTENDS Integers, Sequences, FiniteSets, Bags, TLC

\* ---------------------------------------------------------------- bounds
MaxRetriesBound == 2      \* largest configured max_retries explored
MaxCaptchaRounds == 2     \* CAPTCHA classifications explored per call
MaxCalls == 2             \* attempt_with_recovery calls per session
MaxResumeRequests == 2    \* request_resume calls per session
MaxWaitTicks == 2         \* captcha_max_wait, in timer ticks
MaxStrategyCalls == 4     \* should_retry calls explored between two resets
MaxJobs == 2              \* job listings of one run_search_and_apply
JobMaxRetries == 1        \* max_retries of the job manager's recovery configuration
MaxSubmitCalls == 2       \* submit_application calls on one manager
MaxWrites == 3            \* writes (store_question, update_usage) to one QADatabase
MaxFields == 2            \* fields of one form

\* Values of ErrorType (error_recovery.py, class ErrorType)
CAPTCHA == "captcha"
RATE_LIMIT == "rate_limit"
SESSION_TIMEOUT == "session_timeout"
NETWORK_ERROR == "network_error"
FORM_NOT_FOUND == "form_not_found"
LOGIN_REQUIRED == "login_required"
UNKNOWN_ERROR == "unknown_error"

ErrorType ==
    {CAPTCHA, RATE_LIMIT, SESSION_TIMEOUT, NETWORK_ERROR,
     FORM_NOT_FOUND, LOGIN_REQUIRED, UNKNOWN_ERROR}

\* The max_retries argument of attempt_with_recovery: None or an integer.
None == -1
OverrideValues == {None, 0, 1}

\* Configurations explored (ErrorRecoveryConfig fields that the recovery
\* loop and the retry strategy read).  initial_backoff may exceed max_backoff;
\* the rate-limit cap and the auto-login flag have their shipped values.
ErrorRecoveryConfig ==
    [max_retries : 0..MaxRetriesBound,
     initial_backoff : {2, 7},
     max_backoff : {5},
     backoff_multiplier : {2},
     captcha_max_wait : {MaxWaitTicks},
     captcha_blocking_wait : BOOLEAN,
     captcha_pause_callback : BOOLEAN,
     rate_limit_max_consecutive : {3},
     session_timeout_auto_login : {FALSE}]

\* Configurations with the rate-limit cap lowered into the retry budget and
\* with auto-login switched on or off
TunedConfig ==
    [max_retries : 0..MaxRetriesBound,
     initial_backoff : {2},
     max_backoff : {5},
     backoff_multiplier : {2},
     captcha_max_wait : {MaxWaitTicks},
     captcha_blocking_wait : BOOLEAN,
     captcha_pause_callback : {TRUE},
     rate_limit_max_consecutive : {1, 2},
     session_timeout_auto_login : BOOLEAN]

\* Configurations of a RetryStrategy exercised on its own
StrategyConfig ==
    [max_retries : 0..MaxRetriesBound,
     initial_backoff : {2},
     max_backoff : {5},
     backoff_multiplier : {2},
     captcha_max_wait : {MaxWaitTicks},
     captcha_blocking_wait : {FALSE},
     captcha_pause_callback : {FALSE},
     rate_limit_max_consecutive : {1, 2, 3},
     session_timeout_auto_login : BOOLEAN]

\* The configuration JobApplicationManager builds for its recovery manager:
\* the defaults (non-blocking CAPTCHA, no pause callback, no auto-login)
JobConfig ==
    [max_retries : {JobMaxRetries},
     initial_backoff : {2},
     max_backoff : {5},
     backoff_multiplier : {2},
     captcha_max_wait : {MaxWaitTicks},
     captcha_blocking_wait : {FALSE},
     captcha_pause_callback : {FALSE},
     rate_limit_max_consecutive : {3},
     session_timeout_auto_login : {FALSE}]

\* submit_application: the step cap and the stuck limit
\* Variant: one more step is allowed
max_steps_Eleven == 10 + 1

max_steps == 10
StuckLimit == 3

\* A page as submit_application sees it: its URL and the visible form text,
\* split into its first 500 characters and the rest
Pages == [url : {"u1", "u2"}, text : {<<"a", "x">>, <<"a", "y">>, <<"b", "x">>}]
BlankPage == [url |-> "None", text |-> <<"None", "None">>]

\* hash(...) of a string, and the value of an attribute never assigned
Hash(str) == <<"hash", str>>
NoHash == <<>>

\* hash(form_content[:500]), or hash(current_url) when the form cannot be read
PageHash(pg, readable) == IF readable THEN Hash(pg.text[1]) ELSE Hash(pg.url)

\* Kinds of button text the selectors can find ("none": no button found)
Buttons == {"none", "Next", "Continue", "Review", "Submit"}

\* ------------------------------------------------------------------ text
\* A text is a sequence of characters
UpperCase ==
    <<"A", "B", "C", "D", "E", "F", "G", "H", "I", "J", "K", "L", "M",
      "N", "O", "P", "Q", "R", "S", "T", "U", "V", "W", "X", "Y", "Z">>
LowerCase ==
    <<"a", "b", "c", "d", "e", "f", "g", "h", "i", "j", "k", "l", "m",
      "n", "o", "p", "q", "r", "s", "t", "u", "v", "w", "x", "y", "z">>
Digits == {"0", "1", "2", "3", "4", "5", "6", "7", "8", "9"}

\* \s and \w of the regular expressions
IsSpace(c) == c \in {" ", "\t", "\n"}
IsWordChar(c) ==
    \/ \E i \in 1..26 : c = UpperCase[i] \/ c = LowerCase[i]
    \/ c \in Digits
    \/ c = "_"

\* str.lower(), one character and a whole text
LowerChar(c) ==
    IF \E i \in 1..26 : c = UpperCase[i]
    THEN LowerCase[CHOOSE i \in 1..26 : c = UpperCase[i]]
    ELSE c
Lower(s) == [i \in 1..Len(s) |-> LowerChar(s[i])]

\* str.strip()
RECURSIVE LStrip(_)
LStrip(s) == IF s # <<>> /\ IsSpace(Head(s)) THEN LStrip(Tail(s)) ELSE s
RECURSIVE RStrip(_)
RStrip(s) ==
    IF s # <<>> /\ IsSpace(s[Len(s)]) THEN RStrip(SubSeq(s, 1, Len(s) - 1)) ELSE s
Strip(s) == RStrip(LStrip(s))

\* re.sub(r"\s+", " ", s)
RECURSIVE CollapseSpaces(_)
CollapseSpaces(s) ==
    IF s = <<>> THEN <<>>
    ELSE IF IsSpace(Head(s)) THEN <<" ">> \o CollapseSpaces(LStrip(s))
    ELSE <<Head(s)>> \o CollapseSpaces(Tail(s))

\* re.sub(r"[^\w\s]", "", s)
RemovePunctuation(s) == SelectSeq(s, LAMBDA c : IsWordChar(c) \/ IsSpace(c))

\* str.split(): the words between runs of whitespace
RECURSIVE FirstWord(_)
FirstWord(s) ==
    IF s = <<>> \/ IsSpace(Head(s)) THEN <<>> ELSE <<Head(s)>> \o FirstWord(Tail(s))
RECURSIVE Split(_)
Split(s) ==
    IF s = <<>> THEN <<>>
    ELSE IF IsSpace(Head(s)) THEN Split(Tail(s))
    ELSE IF Len(s) = 1 \/ IsSpace(s[2]) THEN <<<<Head(s)>>>> \o Split(Tail(s))
    ELSE LET rest == Split(Tail(s))
         IN  <<<<Head(s)>> \o Head(rest)>> \o Tail(rest)

\* set(s.split())
RECURSIVE WordSet(_)
WordSet(s) ==
    IF s = <<>> THEN {}
    ELSE IF IsSpace(Head(s)) THEN WordSet(Tail(s))
    ELSE {FirstWord(s)} \cup WordSet(SubSeq(s, Len(FirstWord(s)) + 1, Len(s)))

\* A ratio of two counts, and the comparisons made on ratios
Ratio(n, d) == [num |-> n, den |-> d]
Zero == Ratio(0, 1)
AtLeast(x, y) == x.num * y.den >= y.num * x.den
Greater(x, y) == x.num * y.den > y.num * x.den
Max(a, b) == IF a >= b THEN a ELSE b

Min(a, b) == IF a <= b THEN a ELSE b

RECURSIVE Pow(_, _)
Pow(b, k) == IF k = 0 THEN 1 ELSE b * Pow(b, k - 1)

\* Return values of attempt_with_recovery: (success, error_message)
Success == <<TRUE, "None">>
NoResult == <<FALSE, "pending">>
Failure(msg) == <<FALSE, msg>>

VARIABLES
    config,                 \* ErrorRecoveryManager.config (shared with the strategy)
    strategy,               \* RetryStrategy: retry_count, current_backoff, consecutive_rate_limits
    captcha_resume_event,   \* threading.Event flag
    cancel_requested,       \* JobApplicationManager.cancel_requested
    captcha_events,         \* rows the worker appends to captcha_events.csv (event column)
    pc,                     \* position of the worker
    attempt,                \* local variable attempt of attempt_with_recovery
    result,                 \* value returned by the current / last call
    wait_elapsed,           \* ticks spent in captcha_resume_event.wait
    calls,                  \* calls of attempt_with_recovery started
    resume_requests,        \* calls of request_resume made ("resume_requested" rows)
    invocations,            \* action() invocations of the current call
    last_outcome,           \* outcome of the latest action() invocation
    detects,                \* detect_error() calls of the current call
    seen,                   \* error types classified in the current call
    sleeps,                 \* time.sleep arguments of the current call, in order
    callbacks,              \* captcha_pause_callback invocations of the current call
    waits,                  \* captcha_resume_event.wait calls of the current call
    captcha_rounds,         \* CAPTCHA classifications of the current call
    captcha_total           \* CAPTCHA classifications of the session

\* RetryStrategy exercised on its own
VARIABLES
    sr_log                  \* should_retry calls since the last reset: <<error_type, returned>>

\* JobApplicationManager / LinkedInSession
VARIABLES
    jpc,                    \* position of the worker in run_search_and_apply
    job,                    \* index i of the job loop
    outer_attempt,          \* attempt of the attempt_with_recovery call made by apply_to_job
    inner_attempt,          \* attempt of the call made by fill_application_form
    applied_count,          \* JobApplicationManager.applied_count
    failed_count,           \* JobApplicationManager.failed_count
    skipped_count,          \* JobApplicationManager.skipped_count
    records,                \* rows appended by log_application, as a bag of statuses
    run_records,            \* rows appended by the current run of _apply_action
    a_ret,                  \* value returned by the current run of _apply_action
    progress_last,          \* last (applied, failed, skipped) given to progress_callback
    active_calls,           \* attempt_with_recovery calls entered and not yet returned
    touched_after_cancel,   \* page interactions made while cancel_requested was set
    trail                   \* calls of the current run of _apply_action: <<call, returned true>>

\* JobApplicationManager.submit_application
VARIABLES
    u_pc,                   \* position of the worker in submit_application
    step,                   \* loop variable step
    stuck_count,            \* local variable stuck_count
    last_url,               \* local variable last_url
    last_page_hash,         \* attribute _last_page_hash
    page,                   \* what the browser shows: [url, text]
    clicks,                 \* step-button clicks made in this call
    unchanged_next,         \* latest consecutive "Next" clicks that left the page as it was
    u_result                \* value returned by submit_application

\* QADatabase
VARIABLES
    db,                     \* table question_bank: rows in id order
    now,                    \* datetime.now(), as the number of writes made
    d_last,                 \* the last call made on the database and its arguments
    f_result                \* what the last find_similar_question call returned

\* QuestionHandler
VARIABLES
    h_cfg,                  \* what __init__ found: qa_database set, use_ai
    h_pc,                   \* position of answer_question_element
    h_last                  \* the current or last answer_question_element call

\* FormHandler
VARIABLES
    fields,                 \* what detect_fields returned, in dict order
    answers,                \* the answers mapping, in dict order
    ff_pc,                  \* position of fill_form
    idx,                    \* index of the field the loop is at
    form_result,            \* result, one entry per field processed
    element_ops,            \* operations made on the fields' elements
    percents,               \* values given to progress_cb
    overlap_calls           \* the last two _token_overlap or _score_match calls

svars == <<sr_log>>

fvars ==
    <<fields, answers, ff_pc, idx, form_result, element_ops, percents,
      overlap_calls>>

dvars == <<db, now, d_last, f_result>>

hvars == <<h_cfg, h_pc, h_last>>

\* State of the question and form components
qvars == <<dvars, hvars, fvars>>

jvars ==
    <<jpc, job, outer_attempt, inner_attempt, applied_count, failed_count,
      skipped_count, records, run_records, a_ret, progress_last, active_calls,
      touched_after_cancel, trail>>

uvars ==
    <<u_pc, step, stuck_count, last_url, last_page_hash, page, clicks,
      unchanged_next, u_result>>

\* State outside the recovery manager
ext == <<svars, jvars, uvars, qvars>>

vars ==
    <<config, strategy, captcha_resume_event, cancel_requested, captcha_events,
      pc, attempt, result, wait_elapsed, calls, resume_requests, invocations,
      last_outcome, detects, seen, sleeps, callbacks, waits, captcha_rounds,
      captcha_total, ext>>

\* State of the recovery manager other than its configuration and strategy
rrest ==
    <<captcha_resume_event, cancel_requested, captcha_events, pc, attempt,
      result, wait_elapsed, calls, resume_requests, invocations, last_outcome,
      detects, seen, sleeps, callbacks, waits, captcha_rounds, captcha_total>>

\* History of the current call, untouched by the host's steps
obs == <<invocations, last_outcome, detects, seen, sleeps, callbacks, waits,
         captcha_rounds, captcha_total>>

\* ------------------------------------------------------- RetryStrategy
\* RetryStrategy.__init__ / RetryStrategy.reset
Reset(cfg) ==
    [retry_count |-> 0,
     current_backoff |-> cfg.initial_backoff,
     consecutive_rate_limits |-> 0]

\* Variant: the current backoff is returned without the cap
GetBackoffTime_NoCap(st, cfg) == st.current_backoff

\* RetryStrategy.get_backoff_time
GetBackoffTime(st, cfg) == Min(st.current_backoff, cfg.max_backoff)

\* RetryStrategy.increase_backoff
IncreaseBackoff(st, cfg) ==
    [st EXCEPT !.retry_count = @ + 1,
               !.current_backoff =
                   Min(st.current_backoff * cfg.backoff_multiplier, cfg.max_backoff)]

\* Variant: the cap is reached only above rate_limit_max_consecutive
ShouldRetry_StrictCap(st, cfg, error_type) ==
    LET counted == [st EXCEPT !.consecutive_rate_limits = @ + 1] IN
    CASE error_type = CAPTCHA -> [ret |-> FALSE, st |-> st]
      [] error_type = RATE_LIMIT ->
           [ret |-> IF counted.consecutive_rate_limits > cfg.rate_limit_max_consecutive
                    THEN FALSE
                    ELSE st.retry_count < cfg.max_retries,
            st |-> counted]
      [] error_type = SESSION_TIMEOUT ->
           [ret |-> cfg.session_timeout_auto_login /\ st.retry_count < cfg.max_retries,
            st |-> st]
      [] error_type = NETWORK_ERROR ->
           [ret |-> st.retry_count < cfg.max_retries, st |-> st]
      [] OTHER -> [ret |-> FALSE, st |-> st]

\* RetryStrategy.should_retry: the value returned and the strategy afterwards
ShouldRetry(st, cfg, error_type) ==
    LET counted == [st EXCEPT !.consecutive_rate_limits = @ + 1] IN
    CASE error_type = CAPTCHA -> [ret |-> FALSE, st |-> st]
      [] error_type = RATE_LIMIT ->
           [ret |-> IF counted.consecutive_rate_limits >= cfg.rate_limit_max_consecutive
                    THEN FALSE
                    ELSE st.retry_count < cfg.max_retries,
            st |-> counted]
      [] error_type = SESSION_TIMEOUT ->
           [ret |-> cfg.session_timeout_auto_login /\ st.retry_count < cfg.max_retries,
            st |-> st]
      [] error_type = NETWORK_ERROR ->
           [ret |-> st.retry_count < cfg.max_retries, st |-> st]
      [] OTHER -> [ret |-> FALSE, st |-> st]

\* ------------------------------------------------ ErrorRecoveryManager
\* Variant: the loop condition is attempt < max_retries
LoopPc_OffByOne(att, cfg) == IF att < cfg.max_retries THEN "action" ELSE "done"

\* while attempt <= self.retry_strategy.config.max_retries: ... and the
\* return after the loop
LoopPc(att, cfg) == IF att <= cfg.max_retries THEN "action" ELSE "done"
LoopResult(att, cfg) ==
    IF att <= cfg.max_retries THEN NoResult ELSE Failure("Max retries exceeded")

\* Variant: the page is checked for errors before the result is looked at
ActionReturn_DetectFirst(outcome) ==
    CASE outcome = "true" -> [pc |-> "detect", result |-> NoResult]
      [] outcome = "false" -> [pc |-> "detect", result |-> NoResult]
      [] outcome = "raise" -> [pc |-> "done", result |-> Failure("exception")]

\* Variant: an exception of the action counts as a failed attempt
ActionReturn_RaiseIsFailure(outcome) ==
    CASE outcome = "true" -> [pc |-> "done", result |-> Success]
      [] outcome = "false" -> [pc |-> "detect", result |-> NoResult]
      [] outcome = "raise" -> [pc |-> "detect", result |-> NoResult]

\* Outcome of result = action(): "if result: ... return True, None", the
\* fall-through to detection on False, and "except Exception: return False, str(e)"
ActionReturn(outcome) ==
    CASE outcome = "true" -> [pc |-> "done", result |-> Success]
      [] outcome = "false" -> [pc |-> "detect", result |-> NoResult]
      [] outcome = "raise" -> [pc |-> "done", result |-> Failure("exception")]

\* Variant: an unclassified failure is retried with backoff
Branch_RetryUnknown(error_type) ==
    IF error_type = CAPTCHA THEN "captcha"
    ELSE IF error_type = SESSION_TIMEOUT THEN "session"
    ELSE IF error_type \in {RATE_LIMIT, NETWORK_ERROR, UNKNOWN_ERROR} THEN "backoff"
    ELSE "other"

\* The chain of tests on error_type after detect_error()
Branch(error_type) ==
    IF error_type = UNKNOWN_ERROR THEN "unknown"
    ELSE IF error_type = CAPTCHA THEN "captcha"
    ELSE IF error_type = RATE_LIMIT THEN "backoff"
    ELSE IF error_type = SESSION_TIMEOUT THEN "session"
    ELSE IF error_type = NETWORK_ERROR THEN "backoff"
    ELSE "other"

\* Variant: the worker blocks whatever captcha_blocking_wait says
CaptchaBranchPc_AlwaysBlock(cfg) == "captcha_clear"

\* if self.config.captcha_blocking_wait: ... else return False, "CAPTCHA detected"
CaptchaBranchPc(cfg) == IF cfg.captcha_blocking_wait THEN "captcha_clear" ELSE "done"

\* Variant: the "resumed" row is not written
RecordCaptchaEvent_NoResumed(log, event_type) ==
    IF event_type = "resumed" THEN log ELSE Append(log, event_type)

\* ErrorRecoveryManager._record_captcha_event, on a writable log file
RecordCaptchaEvent(log, event_type) == Append(log, event_type)

\* No strategy test, job session or submit call is running
\* JobApplicationManager.__init__: counters at zero, nothing logged or reported;
\* p is where the job workflow stands
JobVarsInit(p) ==
    /\ jpc = p
    /\ job = 0
    /\ outer_attempt = 0
    /\ inner_attempt = 0
    /\ applied_count = 0
    /\ failed_count = 0
    /\ skipped_count = 0
    /\ records = EmptyBag
    /\ run_records = 0
    /\ a_ret = FALSE
    /\ progress_last = <<>>
    /\ active_calls = 0
    /\ touched_after_cancel = FALSE
    /\ trail = <<>>

\* No submit_application call made yet (_last_page_hash not set); p is where
\* the submit loop stands
SubmitVarsInit(p) ==
    /\ u_pc = p
    /\ step = 0
    /\ stuck_count = 0
    /\ last_url = "None"
    /\ last_page_hash = NoHash
    /\ page = BlankPage
    /\ clicks = 0
    /\ unchanged_next = 0
    /\ u_result = FALSE

\* QADatabase on a new file: the table is empty
DbVarsInit ==
    /\ db = <<>>
    /\ now = 0
    /\ d_last = <<"none">>
    /\ f_result = [id |-> 0]

\* An input, select or textarea element of the page as the handlers see
\* it. type is the classification of detect_fields (tag select; type
\* checkbox or radio; type file; anything else is text). raises: every
\* interaction with the element raises (stale or hidden element).
\* has_text, has_value: a select has an option of that visible text, of
\* that value. path_exists: os.path.exists of the answer, for a file input.
ElementStates ==
    [type : {"text", "select", "checkbox", "file"}, raises : BOOLEAN,
     is_selected : BOOLEAN, has_text : BOOLEAN, has_value : BOOLEAN,
     path_exists : BOOLEAN]

\* The states that differ in what a fill does, one per case
Elements ==
    {e \in ElementStates :
        /\ e.type # "checkbox" => ~e.is_selected
        /\ e.type # "select" => ~e.has_text /\ ~e.has_value
        /\ e.type # "file" => ~e.path_exists
        /\ e.raises => ~e.is_selected /\ ~e.has_text /\ ~e.has_value
        /\ e.raises /\ e.type = "file" => e.path_exists}

\* find_element raised: there is no input under the question
NoElement ==
    [type |-> "none", raises |-> FALSE, is_selected |-> FALSE,
     has_text |-> FALSE, has_value |-> FALSE, path_exists |-> FALSE]

\* An answer_question_element call that has not resolved anything
NoCall ==
    [text |-> <<>>, matched |-> FALSE, static_score |-> Zero,
     consulted |-> <<>>, db_hit |-> FALSE, db_answer |-> "", ai_answer |-> "",
     answer |-> "", score |-> Zero, source |-> "static", status |-> "none",
     reason |-> "", input |-> NoElement, touched |-> <<>>]

\* QuestionHandler.__init__ with AI disabled and the database created
HandlerVarsInit ==
    /\ h_cfg = [has_db |-> TRUE, use_ai |-> FALSE]
    /\ h_pc = "idle"
    /\ h_last = NoCall

\* FormHandler.__init__: no fill_form call yet
FormVarsInit ==
    /\ fields = <<>>
    /\ answers = <<>>
    /\ ff_pc = "idle"
    /\ idx = 0
    /\ form_result = <<>>
    /\ element_ops = <<>>
    /\ percents = <<>>
    /\ overlap_calls = <<>>

\* The question and form components before any call
QVarsInit == DbVarsInit /\ HandlerVarsInit /\ FormVarsInit

ExtInit ==
    /\ sr_log = <<>>
    /\ JobVarsInit("off")
    /\ SubmitVarsInit("off")
    /\ QVarsInit

\* ErrorRecoveryManager.__init__: fresh strategy, event not set, no call running
RecoveryInit ==
    /\ strategy = Reset(config)
    /\ captcha_resume_event = FALSE
    /\ cancel_requested = FALSE
    /\ captcha_events = <<>>
    /\ pc = "idle"
    /\ attempt = 0
    /\ result = NoResult
    /\ wait_elapsed = 0
    /\ calls = 0
    /\ resume_requests = 0
    /\ invocations = 0
    /\ last_outcome = "none"
    /\ detects = 0
    /\ seen = {}
    /\ sleeps = <<>>
    /\ callbacks = 0
    /\ waits = 0
    /\ captcha_rounds = 0
    /\ captcha_total = 0

Init ==
    /\ config \in ErrorRecoveryConfig
    /\ RecoveryInit
    /\ ExtInit

\* Variant: the entry leaves the strategy as the previous call left it
StartCall_NoReset(override) ==
    /\ pc = "idle"
    /\ calls < MaxCalls
    /\ calls' = calls + 1
    /\ LET cfg == IF override # None /\ override # 0
                  THEN [config EXCEPT !.max_retries = override]
                  ELSE config
       IN /\ config' = cfg
          /\ strategy' = strategy
          /\ attempt' = 0
          /\ pc' = LoopPc(0, cfg)
          /\ result' = LoopResult(0, cfg)
    /\ invocations' = 0
    /\ last_outcome' = "none"
    /\ detects' = 0
    /\ seen' = {}
    /\ sleeps' = <<>>
    /\ callbacks' = 0
    /\ waits' = 0
    /\ captcha_rounds' = 0
    /\ UNCHANGED <<captcha_resume_event, cancel_requested, captcha_events,
                   wait_elapsed, resume_requests, captcha_total>>
    /\ UNCHANGED ext

\* attempt_with_recovery, entry: reset, optional override, attempt = 0
StartCall(override) ==
    /\ pc = "idle"
    /\ calls < MaxCalls
    /\ calls' = calls + 1
    /\ LET cfg == IF override # None /\ override # 0
                  THEN [config EXCEPT !.max_retries = override]
                  ELSE config
       IN /\ config' = cfg
          /\ strategy' = Reset(config)
          /\ attempt' = 0
          /\ pc' = LoopPc(0, cfg)
          /\ result' = LoopResult(0, cfg)
    /\ invocations' = 0
    /\ last_outcome' = "none"
    /\ detects' = 0
    /\ seen' = {}
    /\ sleeps' = <<>>
    /\ callbacks' = 0
    /\ waits' = 0
    /\ captcha_rounds' = 0
    /\ UNCHANGED <<captcha_resume_event, cancel_requested, captcha_events,
                   wait_elapsed, resume_requests, captcha_total>>
    /\ UNCHANGED ext

\* result = action(), with its three outcomes: True, False, exception
InvokeAction(outcome) ==
    /\ pc = "action"
    /\ invocations' = invocations + 1
    /\ last_outcome' = outcome
    /\ pc' = ActionReturn(outcome).pc
    /\ result' = ActionReturn(outcome).result
    /\ strategy' = IF outcome = "true" THEN Reset(config) ELSE strategy
    /\ UNCHANGED <<config, captcha_resume_event, cancel_requested, captcha_events,
                   attempt, wait_elapsed, calls, resume_requests, detects, seen,
                   sleeps, callbacks, waits, captcha_rounds, captcha_total>>
    /\ UNCHANGED ext

\* error_type, error_msg = self.detector.detect_error() and the branch taken
DetectError(error_type) ==
    /\ pc = "detect"
    /\ error_type = CAPTCHA => captcha_rounds < MaxCaptchaRounds
    /\ detects' = detects + 1
    /\ seen' = seen \cup {error_type}
    /\ CASE Branch(error_type) = "unknown" ->
              /\ pc' = "done"
              /\ result' = Failure("Unknown error")
              /\ UNCHANGED <<strategy, attempt, sleeps, captcha_events,
                             captcha_rounds, captcha_total>>
         [] Branch(error_type) = "captcha" ->
              /\ captcha_events' = RecordCaptchaEvent(captcha_events, "paused")
              /\ captcha_rounds' = captcha_rounds + 1
              /\ captcha_total' = captcha_total + 1
              /\ pc' = CaptchaBranchPc(config)
              /\ result' = IF CaptchaBranchPc(config) = "done"
                            THEN Failure("CAPTCHA detected") ELSE result
              /\ UNCHANGED <<strategy, attempt, sleeps>>
         [] Branch(error_type) = "backoff" ->
              /\ sleeps' = Append(sleeps, GetBackoffTime(strategy, config))
              /\ strategy' = IncreaseBackoff(strategy, config)
              /\ attempt' = attempt + 1
              /\ pc' = LoopPc(attempt + 1, config)
              /\ result' = LoopResult(attempt + 1, config)
              /\ UNCHANGED <<captcha_events, captcha_rounds, captcha_total>>
         [] Branch(error_type) = "session" ->
              /\ pc' = "done"
              /\ result' = Failure("Session timeout")
              /\ UNCHANGED <<strategy, attempt, sleeps, captcha_events,
                             captcha_rounds, captcha_total>>
         [] OTHER ->
              /\ pc' = "done"
              /\ result' = Failure(error_type)
              /\ UNCHANGED <<strategy, attempt, sleeps, captcha_events,
                             captcha_rounds, captcha_total>>
    /\ UNCHANGED <<config, captcha_resume_event, cancel_requested, wait_elapsed,
                   calls, resume_requests, invocations, last_outcome, callbacks,
                   waits>>
    /\ UNCHANGED ext

\* self.captcha_resume_event.clear()
ClearResumeEvent ==
    /\ pc = "captcha_clear"
    /\ captcha_resume_event' = FALSE
    /\ pc' = "captcha_callback"
    /\ UNCHANGED <<config, strategy, cancel_requested, captcha_events, attempt,
                   result, wait_elapsed, calls, resume_requests>>
    /\ UNCHANGED obs
    /\ UNCHANGED ext

\* self.config.captcha_pause_callback(...) when one is set, then the worker
\* enters captcha_resume_event.wait(timeout=captcha_max_wait)
PauseCallback ==
    /\ pc = "captcha_callback"
    /\ callbacks' = IF config.captcha_pause_callback THEN callbacks + 1 ELSE callbacks
    /\ waits' = waits + 1
    /\ wait_elapsed' = 0
    /\ pc' = "captcha_wait"
    /\ UNCHANGED <<config, strategy, captcha_resume_event, cancel_requested,
                   captcha_events, attempt, result, calls, resume_requests,
                   invocations, last_outcome, detects, seen, sleeps,
                   captcha_rounds, captcha_total>>
    /\ UNCHANGED ext

\* Time passes while the worker is blocked in Event.wait
Tick ==
    /\ pc = "captcha_wait"
    /\ ~captcha_resume_event
    /\ wait_elapsed < config.captcha_max_wait
    /\ wait_elapsed' = wait_elapsed + 1
    /\ UNCHANGED <<config, strategy, captcha_resume_event, cancel_requested,
                   captcha_events, pc, attempt, result, calls, resume_requests>>
    /\ UNCHANGED obs
    /\ UNCHANGED ext

\* Variant: a resume counts as a retry
WaitResumed_CountsAttempt ==
    /\ pc = "captcha_wait"
    /\ captcha_resume_event
    /\ captcha_events' = RecordCaptchaEvent(captcha_events, "resumed")
    /\ attempt' = attempt + 1
    /\ strategy' = IncreaseBackoff(strategy, config)
    /\ pc' = LoopPc(attempt + 1, config)
    /\ result' = LoopResult(attempt + 1, config)
    /\ UNCHANGED <<config, captcha_resume_event, cancel_requested,
                   wait_elapsed, calls, resume_requests>>
    /\ UNCHANGED obs
    /\ UNCHANGED ext

\* wait() returned True: record "resumed" and continue with the same attempt
WaitResumed ==
    /\ pc = "captcha_wait"
    /\ captcha_resume_event
    /\ captcha_events' = RecordCaptchaEvent(captcha_events, "resumed")
    /\ pc' = LoopPc(attempt, config)
    /\ result' = LoopResult(attempt, config)
    /\ UNCHANGED <<config, strategy, captcha_resume_event, cancel_requested,
                   attempt, wait_elapsed, calls, resume_requests>>
    /\ UNCHANGED obs
    /\ UNCHANGED ext

\* Variant: the wait is also given up when cancellation was requested
WaitTimeout_OnCancel ==
    /\ pc = "captcha_wait"
    /\ ~captcha_resume_event
    /\ (wait_elapsed >= config.captcha_max_wait \/ cancel_requested)
    /\ captcha_events' = RecordCaptchaEvent(captcha_events, "timeout")
    /\ pc' = "done"
    /\ result' = Failure("CAPTCHA timeout")
    /\ UNCHANGED <<config, strategy, captcha_resume_event, cancel_requested,
                   attempt, wait_elapsed, calls, resume_requests>>
    /\ UNCHANGED obs
    /\ UNCHANGED ext

\* Variant: wait() is called without a timeout
WaitTimeout_Never ==
    /\ FALSE
    /\ UNCHANGED vars

\* wait() returned False after captcha_max_wait: record "timeout" and fail
WaitTimeout ==
    /\ pc = "captcha_wait"
    /\ ~captcha_resume_event
    /\ wait_elapsed >= config.captcha_max_wait
    /\ captcha_events' = RecordCaptchaEvent(captcha_events, "timeout")
    /\ pc' = "done"
    /\ result' = Failure("CAPTCHA timeout")
    /\ UNCHANGED <<config, strategy, captcha_resume_event, cancel_requested,
                   attempt, wait_elapsed, calls, resume_requests>>
    /\ UNCHANGED obs
    /\ UNCHANGED ext

\* The call has returned to its caller; the record of the call is dropped
Return ==
    /\ pc = "done"
    /\ pc' = "idle"
    /\ invocations' = 0
    /\ last_outcome' = "none"
    /\ detects' = 0
    /\ seen' = {}
    /\ sleeps' = <<>>
    /\ callbacks' = 0
    /\ waits' = 0
    /\ captcha_rounds' = 0
    /\ attempt' = 0
    /\ wait_elapsed' = 0
    /\ UNCHANGED <<config, strategy, captcha_resume_event, cancel_requested,
                   captcha_events, result, calls,
                   resume_requests, captcha_total>>
    /\ UNCHANGED ext

\* ------------------------------------------------------------ the host
\* ErrorRecoveryManager.request_resume: sets the event and appends a
\* "resume_requested" row.  captcha_events keeps the worker's rows; the
\* host's rows are counted by resume_requests.
RequestResume ==
    /\ resume_requests < MaxResumeRequests
    /\ resume_requests' = resume_requests + 1
    /\ captcha_resume_event' = TRUE
    /\ UNCHANGED <<config, strategy, cancel_requested, captcha_events, pc, attempt,
                   result, wait_elapsed, calls>>
    /\ UNCHANGED obs
    /\ UNCHANGED ext

\* request_cancel_current -> JobApplicationManager.request_cancel (and a
\* best-effort close_browser, which touches no state of the recovery manager)
RequestCancelCurrent ==
    /\ ~cancel_requested
    /\ cancel_requested' = TRUE
    /\ UNCHANGED <<config, strategy, captcha_resume_event, captcha_events, pc,
                   attempt, result, wait_elapsed, calls, resume_requests>>
    /\ UNCHANGED obs
    /\ UNCHANGED ext

Next ==
    \/ \E override \in OverrideValues : StartCall(override)
    \/ \E outcome \in {"true", "false", "raise"} : InvokeAction(outcome)
    \/ \E error_type \in ErrorType : DetectError(error_type)
    \/ ClearResumeEvent
    \/ PauseCallback
    \/ Tick
    \/ WaitResumed
    \/ WaitTimeout
    \/ Return
    \/ RequestResume
    \/ RequestCancelCurrent

Spec == Init /\ [][Next]_vars

\* The scheduler runs the worker and the wait timer advances
FairSpec ==
    Spec /\ WF_vars(Tick) /\ WF_vars(WaitResumed) /\ WF_vars(WaitTimeout)

\* The recovery loop under the lowered cap and either auto-login setting
InitTuned ==
    /\ config \in TunedConfig
    /\ RecoveryInit
    /\ ExtInit

TunedSpec == InitTuned /\ [][Next]_vars

\* The recovery loop of a manager configured with max_retries at its
\* largest value, so that every override lowers it
InitOverride ==
    /\ config \in {c \in ErrorRecoveryConfig : c.max_retries = MaxRetriesBound}
    /\ RecoveryInit
    /\ ExtInit

OverrideSpec == InitOverride /\ [][Next]_vars

\* ------------------------------------------- RetryStrategy on its own
InitStrategy ==
    /\ config \in StrategyConfig
    /\ RecoveryInit
    /\ ExtInit

\* strategy.should_retry(error_type)
ShouldRetryCall(error_type) ==
    /\ Len(sr_log) < MaxStrategyCalls
    /\ strategy' = ShouldRetry(strategy, config, error_type).st
    /\ sr_log' = Append(sr_log, <<error_type, ShouldRetry(strategy, config, error_type).ret>>)
    /\ UNCHANGED <<config, rrest, jvars, uvars, qvars>>

\* strategy.increase_backoff()
IncreaseBackoffCall ==
    /\ strategy.retry_count <= MaxRetriesBound
    /\ strategy' = IncreaseBackoff(strategy, config)
    /\ UNCHANGED <<config, rrest, ext>>

\* strategy.reset()
ResetCall ==
    /\ strategy' = Reset(config)
    /\ sr_log' = <<>>
    /\ UNCHANGED <<config, rrest, jvars, uvars, qvars>>

NextStrategy ==
    \/ \E error_type \in ErrorType : ShouldRetryCall(error_type)
    \/ IncreaseBackoffCall
    \/ ResetCall

StrategySpec == InitStrategy /\ [][NextStrategy]_vars

\* --------------------------------------------- JobApplicationManager
\* State the job workflow never writes
jfixed ==
    <<config, captcha_resume_event, pc, attempt, result, wait_elapsed, calls,
      resume_requests, obs, svars, uvars, qvars>>

\* LinkedInSession.run_search_and_apply has reached its job loop
InitJob ==
    /\ config \in JobConfig
    /\ RecoveryInit
    /\ sr_log = <<>>
    /\ JobVarsInit("loop")
    /\ SubmitVarsInit("off")
    /\ QVarsInit

\* A page interaction: remembered when the cancel flag was already set
Touch == touched_after_cancel' = (touched_after_cancel \/ cancel_requested)

\* The for loop moves to the next listing, or ends
NextJob ==
    /\ job' = job + 1
    /\ jpc' = IF job + 1 < MaxJobs THEN "loop" ELSE "finished"

\* log_application(..., status): one more row in the history file
LogApplication(status) ==
    /\ records' = records (+) SetToBag({status})
    /\ run_records' = run_records + 1

\* _apply_action returns ret to the recovery loop
ApplyReturns(ret) ==
    /\ a_ret' = ret
    /\ jpc' = "a_return"

\* fill_application_form returned False: "Failed" row, failed_count += 1, return False
FormFillError ==
    /\ LogApplication("Failed")
    /\ failed_count' = failed_count + 1
    /\ ApplyReturns(FALSE)
    /\ active_calls' = active_calls - 1
    /\ UNCHANGED <<job, outer_attempt, applied_count, skipped_count, progress_last>>

\* What the recovery loop does after classifying the page with `att` retries made
RecoveryStep(error_type, att) ==
    IF Branch(error_type) = "backoff" /\ LoopPc(att + 1, config) = "action"
    THEN "retry" ELSE "fail"

\* The strategy and the audit log after one classification
StrategyAfter(error_type) ==
    IF Branch(error_type) = "backoff" THEN IncreaseBackoff(strategy, config) ELSE strategy
EventsAfter(error_type) ==
    IF Branch(error_type) = "captcha"
    THEN RecordCaptchaEvent(captcha_events, "paused") ELSE captcha_events

\* evaluate_job_match and the score test of the job loop; the job description
\* is read from the page unless smart filtering is disabled
EvaluateJobMatch(m) ==
    /\ jpc = "loop"
    /\ touched_after_cancel' = (touched_after_cancel \/ (cancel_requested /\ m # "disabled"))
    /\ IF m = "low"
       THEN /\ skipped_count' = skipped_count + 1
            /\ records' = records (+) SetToBag({"Skipped"})
            /\ NextJob
       ELSE /\ jpc' = "apply_start"
            /\ UNCHANGED <<skipped_count, records, job>>
    /\ UNCHANGED <<outer_attempt, inner_attempt, applied_count, failed_count,
                   run_records, a_ret, progress_last, active_calls>>
    /\ UNCHANGED <<strategy, cancel_requested, captcha_events, jfixed>>
    /\ UNCHANGED trail

\* Variant: a new application clears a pending cancellation
StartApply_ClearsCancel ==
    /\ jpc = "apply_start"
    /\ strategy' = Reset(config)
    /\ outer_attempt' = 0
    /\ active_calls' = active_calls + 1
    /\ jpc' = "a_begin"
    /\ cancel_requested' = FALSE
    /\ UNCHANGED <<job, inner_attempt, applied_count, failed_count, skipped_count,
                   records, run_records, a_ret, progress_last, touched_after_cancel>>
    /\ UNCHANGED <<captcha_events, jfixed>>
    /\ UNCHANGED trail

\* apply_to_job: attempt_with_recovery(_apply_action, "Apply to Job") is entered
StartApply ==
    /\ jpc = "apply_start"
    /\ strategy' = Reset(config)
    /\ outer_attempt' = 0
    /\ active_calls' = active_calls + 1
    /\ jpc' = "a_begin"
    /\ UNCHANGED <<job, inner_attempt, applied_count, failed_count, skipped_count,
                   records, run_records, a_ret, progress_last, touched_after_cancel>>
    /\ UNCHANGED <<cancel_requested, captcha_events, jfixed>>
    /\ UNCHANGED trail

\* Variant: a listing that could not be clicked is treated as opened
ClickListing_IgnoresMiss(outcome) ==
    /\ jpc = "a_begin"
    /\ IF cancel_requested
       THEN /\ run_records' = 0
            /\ ApplyReturns(FALSE)
            /\ UNCHANGED <<records, failed_count, progress_last, touched_after_cancel>>
       ELSE /\ Touch
            /\ CASE outcome = "clicked" ->
                      /\ progress_last' = <<applied_count, failed_count, skipped_count>>
                      /\ run_records' = 0
                      /\ jpc' = "easy_apply"
                      /\ UNCHANGED <<records, failed_count, a_ret>>
                 [] outcome = "not_clicked" ->
                      /\ progress_last' = <<applied_count, failed_count, skipped_count>>
                      /\ run_records' = 0
                      /\ jpc' = "easy_apply"
                      /\ UNCHANGED <<records, failed_count, a_ret>>
                 [] outcome = "raise" ->
                      /\ failed_count' = failed_count + 1
                      /\ records' = records (+) SetToBag({"Failed"})
                      /\ run_records' = 1
                      /\ ApplyReturns(FALSE)
                      /\ UNCHANGED progress_last
    /\ UNCHANGED <<job, outer_attempt, inner_attempt, applied_count, skipped_count,
                   active_calls>>
    /\ UNCHANGED <<strategy, cancel_requested, captcha_events, jfixed>>
    /\ trail' = IF cancel_requested THEN <<>> ELSE <<<<"listing", outcome = "clicked">>>>

\* _apply_action, first part: cancel test, listing click, progress update
ClickListing(outcome) ==
    /\ jpc = "a_begin"
    /\ IF cancel_requested
       THEN /\ run_records' = 0
            /\ ApplyReturns(FALSE)
            /\ UNCHANGED <<records, failed_count, progress_last, touched_after_cancel>>
       ELSE /\ Touch
            /\ CASE outcome = "clicked" ->
                      /\ progress_last' = <<applied_count, failed_count, skipped_count>>
                      /\ run_records' = 0
                      /\ jpc' = "easy_apply"
                      /\ UNCHANGED <<records, failed_count, a_ret>>
                 [] outcome = "not_clicked" ->
                      /\ run_records' = 0
                      /\ ApplyReturns(FALSE)
                      /\ UNCHANGED <<records, failed_count, progress_last>>
                 [] outcome = "raise" ->
                      /\ failed_count' = failed_count + 1
                      /\ records' = records (+) SetToBag({"Failed"})
                      /\ run_records' = 1
                      /\ ApplyReturns(FALSE)
                      /\ UNCHANGED progress_last
    /\ UNCHANGED <<job, outer_attempt, inner_attempt, applied_count, skipped_count,
                   active_calls>>
    /\ UNCHANGED <<strategy, cancel_requested, captcha_events, jfixed>>
    /\ trail' = IF cancel_requested THEN <<>> ELSE <<<<"listing", outcome = "clicked">>>>

\* _apply_action, second part: cancel test, click_easy_apply
ClickEasyApply(outcome) ==
    /\ jpc = "easy_apply"
    /\ IF cancel_requested
       THEN /\ ApplyReturns(FALSE)
            /\ UNCHANGED <<records, run_records, skipped_count, touched_after_cancel>>
       ELSE /\ Touch
            /\ IF outcome = "clicked"
               THEN /\ jpc' = "fill_check"
                    /\ UNCHANGED <<records, run_records, skipped_count, a_ret>>
               ELSE /\ skipped_count' = skipped_count + 1
                    /\ LogApplication("Skipped")
                    /\ ApplyReturns(FALSE)
    /\ UNCHANGED <<job, outer_attempt, inner_attempt, applied_count, failed_count,
                   progress_last, active_calls>>
    /\ UNCHANGED <<strategy, cancel_requested, captcha_events, jfixed>>
    /\ trail' = IF cancel_requested THEN trail
                 ELSE Append(trail, <<"easy_apply", outcome = "clicked">>)

\* _apply_action, third part: cancel test, then fill_application_form enters
\* attempt_with_recovery(_fill_form_action, "Fill Application Form")
StartFill ==
    /\ jpc = "fill_check"
    /\ IF cancel_requested
       THEN /\ ApplyReturns(FALSE)
            /\ UNCHANGED <<strategy, inner_attempt, active_calls>>
       ELSE /\ strategy' = Reset(config)
            /\ inner_attempt' = 0
            /\ active_calls' = active_calls + 1
            /\ jpc' = "f_action"
            /\ UNCHANGED a_ret
    /\ UNCHANGED <<job, outer_attempt, applied_count, failed_count, skipped_count,
                   records, run_records, progress_last, touched_after_cancel>>
    /\ UNCHANGED <<cancel_requested, captcha_events, jfixed>>
    /\ UNCHANGED trail

\* _fill_form_action run by the inner recovery loop
FillFormAction(outcome) ==
    /\ jpc = "f_action"
    /\ IF cancel_requested
       THEN /\ jpc' = "f_detect"
            /\ UNCHANGED <<strategy, job, outer_attempt, applied_count, failed_count,
                           skipped_count, records, run_records, a_ret, progress_last,
                           active_calls, touched_after_cancel>>
       ELSE /\ Touch
            /\ CASE outcome = "true" ->
                      /\ strategy' = Reset(config)
                      /\ active_calls' = active_calls - 1
                      /\ jpc' = "submit"
                      /\ UNCHANGED <<job, outer_attempt, applied_count, failed_count,
                                     skipped_count, records, run_records, a_ret,
                                     progress_last>>
                 [] outcome = "false" ->
                      /\ jpc' = "f_detect"
                      /\ UNCHANGED <<strategy, job, outer_attempt, applied_count,
                                     failed_count, skipped_count, records, run_records,
                                     a_ret, progress_last, active_calls>>
                 [] outcome = "raise" ->
                      /\ FormFillError
                      /\ UNCHANGED strategy
    /\ UNCHANGED inner_attempt
    /\ UNCHANGED <<cancel_requested, captcha_events, jfixed>>
    /\ trail' = IF cancel_requested \/ outcome = "false" THEN trail
                 ELSE Append(trail, <<"fill", outcome = "true">>)

\* detect_error() of the inner recovery loop and the branch taken
FillDetect(error_type) ==
    /\ jpc = "f_detect"
    /\ error_type = CAPTCHA => Len(captcha_events) < MaxCaptchaRounds
    /\ Touch
    /\ strategy' = StrategyAfter(error_type)
    /\ captcha_events' = EventsAfter(error_type)
    /\ IF RecoveryStep(error_type, inner_attempt) = "retry"
       THEN /\ inner_attempt' = inner_attempt + 1
            /\ jpc' = "f_action"
            /\ UNCHANGED <<job, outer_attempt, applied_count, failed_count,
                           skipped_count, records, run_records, a_ret, progress_last,
                           active_calls>>
       ELSE /\ FormFillError
            /\ UNCHANGED inner_attempt
    /\ UNCHANGED <<cancel_requested, jfixed>>
    /\ trail' = IF RecoveryStep(error_type, inner_attempt) = "retry" THEN trail
                 ELSE Append(trail, <<"fill", FALSE>>)

\* submit_application and the branch of _apply_action on its result
SubmitApplication(outcome) ==
    /\ jpc = "submit"
    /\ Touch
    /\ CASE outcome = "true" ->
              /\ LogApplication("Applied")
              /\ applied_count' = applied_count + 2
              /\ ApplyReturns(TRUE)
              /\ UNCHANGED failed_count
         [] outcome = "false" ->
              /\ LogApplication("Failed")
              /\ failed_count' = failed_count + 1
              /\ ApplyReturns(FALSE)
              /\ UNCHANGED applied_count
         [] outcome = "raise" ->
              /\ LogApplication("Failed")
              /\ failed_count' = failed_count + 2
              /\ ApplyReturns(FALSE)
              /\ UNCHANGED applied_count
    /\ UNCHANGED <<job, outer_attempt, inner_attempt, skipped_count, progress_last,
                   active_calls>>
    /\ UNCHANGED <<strategy, cancel_requested, captcha_events, jfixed>>
    /\ trail' = Append(trail, <<"submit", outcome = "true">>)

\* The outer recovery loop looks at the value _apply_action returned
ApplyResult ==
    /\ jpc = "a_return"
    /\ IF a_ret
       THEN /\ strategy' = Reset(config)
            /\ active_calls' = active_calls - 1
            /\ NextJob
       ELSE /\ jpc' = "o_detect"
            /\ UNCHANGED <<strategy, active_calls, job>>
    /\ UNCHANGED <<outer_attempt, inner_attempt, applied_count, failed_count,
                   skipped_count, records, run_records, a_ret, progress_last,
                   touched_after_cancel>>
    /\ UNCHANGED <<cancel_requested, captcha_events, jfixed>>
    /\ trail' = <<>>

\* detect_error() of the outer recovery loop and the branch taken
ApplyDetect(error_type) ==
    /\ jpc = "o_detect"
    /\ error_type = CAPTCHA => Len(captcha_events) < MaxCaptchaRounds
    /\ Touch
    /\ strategy' = StrategyAfter(error_type)
    /\ captcha_events' = EventsAfter(error_type)
    /\ IF RecoveryStep(error_type, outer_attempt) = "retry"
       THEN /\ outer_attempt' = outer_attempt + 1
            /\ jpc' = "a_begin"
            /\ UNCHANGED <<job, active_calls>>
       ELSE /\ active_calls' = active_calls - 1
            /\ NextJob
            /\ UNCHANGED outer_attempt
    /\ UNCHANGED <<inner_attempt, applied_count, failed_count, skipped_count,
                   records, run_records, a_ret, progress_last>>
    /\ UNCHANGED <<cancel_requested, jfixed>>
    /\ UNCHANGED trail

\* What detect_error() returns in the job workflow: one error type for
\* each way the recovery loop goes on (CAPTCHA row, backoff and retry,
\* plain failure); the other types fail like UNKNOWN_ERROR does
JobErrors == {CAPTCHA, RATE_LIMIT, NETWORK_ERROR, UNKNOWN_ERROR}

NextJobStep ==
    \/ \E m \in {"disabled", "unscored", "low", "good"} : EvaluateJobMatch(m)
    \/ StartApply
    \/ \E outcome \in {"clicked", "not_clicked", "raise"} : ClickListing(outcome)
    \/ \E outcome \in {"clicked", "unavailable"} : ClickEasyApply(outcome)
    \/ StartFill
    \/ \E outcome \in {"true", "false", "raise"} : FillFormAction(outcome)
    \/ \E error_type \in JobErrors : FillDetect(error_type)
    \/ \E outcome \in {"true", "false", "raise"} : SubmitApplication(outcome)
    \/ ApplyResult
    \/ \E error_type \in JobErrors : ApplyDetect(error_type)
    \/ RequestCancelCurrent

JobSpec == InitJob /\ [][NextJobStep]_vars

\* ------------------------------------------------ submit_application
\* State submit_application never writes
ufixed ==
    <<config, strategy, rrest, svars, jpc, job, outer_attempt, inner_attempt,
      skipped_count, records, run_records, a_ret, progress_last, active_calls,
      touched_after_cancel, trail, qvars>>

InitSubmit ==
    /\ config \in JobConfig
    /\ RecoveryInit
    /\ sr_log = <<>>
    /\ JobVarsInit("off")
    /\ SubmitVarsInit("idle")
    /\ QVarsInit

\* The call returns ret
SubmitReturns(ret) ==
    /\ u_pc' = "done"
    /\ u_result' = ret

\* submit_application is entered on the form the browser shows
StartSubmit(pg) ==
    /\ u_pc \in {"idle", "done"}
    /\ applied_count + failed_count < MaxSubmitCalls
    /\ u_pc' = "loop"
    /\ step' = 0
    /\ stuck_count' = 0
    /\ last_url' = "None"
    /\ page' = pg
    /\ clicks' = 0
    /\ unchanged_next' = 0
    /\ u_result' = FALSE
    /\ UNCHANGED <<last_page_hash, applied_count, failed_count, ufixed>>

\* The test of the stuck detector after a click
StuckTest(button, current_url, current_page_hash) ==
    /\ button = "Next"
    /\ current_url = last_url
    /\ current_page_hash = last_page_hash

\* One iteration of the step loop: find a button, click it, compare the page
\* with the one remembered, look for the confirmation
SubmitStep(button, pg, readable, confirmed) ==
    /\ u_pc = "loop"
    /\ step < max_steps
    /\ IF button = "none"
       THEN /\ SubmitReturns(step > 0)
            /\ applied_count' = IF step > 0 THEN applied_count + 1 ELSE applied_count
            /\ UNCHANGED <<step, stuck_count, last_url, last_page_hash, page, clicks,
                           unchanged_next>>
       ELSE LET current_url == pg.url
                current_page_hash == PageHash(pg, readable)
                stuck == StuckTest(button, current_url, current_page_hash)
                aborts == stuck /\ stuck_count + 1 >= StuckLimit
            IN /\ page' = pg
               /\ clicks' = clicks + 1
               /\ unchanged_next' = IF button = "Next" /\ pg = page
                                    THEN unchanged_next + 1 ELSE 0
               /\ stuck_count' = IF button # "Next" THEN stuck_count
                                 ELSE IF stuck THEN stuck_count + 1 ELSE 0
               /\ IF aborts
                  THEN /\ SubmitReturns(FALSE)
                       /\ UNCHANGED <<step, last_url, last_page_hash, applied_count>>
                  ELSE /\ last_url' = current_url
                       /\ last_page_hash' = current_page_hash
                       /\ IF confirmed
                          THEN /\ SubmitReturns(TRUE)
                               /\ applied_count' = applied_count + 1
                               /\ UNCHANGED step
                          ELSE IF step + 1 = max_steps
                          THEN /\ SubmitReturns(TRUE)
                               /\ applied_count' = applied_count + 1
                               /\ step' = step + 1
                          ELSE /\ step' = step + 1
                               /\ UNCHANGED <<u_pc, u_result, applied_count>>
    /\ UNCHANGED <<failed_count, ufixed>>

\* An exception escapes to the outer handler: failed_count += 1, return False
SubmitRaise ==
    /\ u_pc = "loop"
    /\ failed_count' = failed_count + 1
    /\ SubmitReturns(FALSE)
    /\ UNCHANGED <<step, stuck_count, last_url, last_page_hash, page, clicks,
                   unchanged_next, applied_count, ufixed>>

NextSubmit ==
    \/ \E pg \in Pages : StartSubmit(pg)
    \/ \E button \in Buttons, pg \in Pages, readable \in BOOLEAN, confirmed \in BOOLEAN :
          SubmitStep(button, pg, readable, confirmed)
    \/ SubmitRaise

SubmitSpec == InitSubmit /\ [][NextSubmit]_vars

\* The worker thread keeps running the step loop
SubmitIteration ==
    \E button \in Buttons, pg \in Pages, readable \in BOOLEAN, confirmed \in BOOLEAN :
        SubmitStep(button, pg, readable, confirmed)

FairSubmitSpec == SubmitSpec /\ WF_vars(SubmitIteration)

\* ---------------------------------------------------------- QADatabase
\* State outside the database
dfixed == <<config, strategy, rrest, svars, jvars, uvars, hvars, fvars>>

\* Question texts given to the database
WorkA == <<"W", "o", "r", "k", " ", "a">>
WorkA_Spaced == <<" ", "w", "o", "r", "k", " ", "\t", "a", " ">>
WorkA_Mark == <<"w", "o", "r", "k", " ", "a", "?">>
WorkB == <<"w", "o", "r", "k", " ", "b">>
Questions == {WorkA, WorkA_Spaced, WorkA_Mark, WorkB}

\* More question texts of the same similarity bucket, and texts of another
\* bucket
WorkC == <<"w", "o", "r", "k", " ", "c">>
WorkD == <<"w", "o", "r", "k", " ", "d">>
WorkE == <<"w", "o", "r", "k", " ", "e">>
WorkABC == <<"w", "o", "r", "k", " ", "a", " ", "b", " ", "c">>
WorkABCD == <<"w", "o", "r", "k", " ", "a", " ", "b", " ", "c", " ", "d">>
TeamABC == <<"t", "e", "a", "m", " ", "a", " ", "b", " ", "c">>
TeamA == <<"T", "e", "a", "m", " ", "a">>
TeamA_Spaced == <<"t", "e", "a", "m", " ", " ", "a">>

\* Every text of the model, as given and stripped
Texts ==
    LET given == Questions \cup {WorkC, WorkD, WorkE, WorkABC, WorkABCD,
                                 TeamABC, TeamA, TeamA_Spaced}
    IN  given \cup {Strip(t) : t \in given}
Answers == {"yes", "no"}
JobFields == {"", "acme"}

\* Variant: the question is not lowercased
NormalizeQuestion_KeepCase(question) ==
    RemovePunctuation(CollapseSpaces(Strip(question)))

\* QADatabase._normalize_question
NormalizeQuestion(question) ==
    RemovePunctuation(CollapseSpaces(Lower(Strip(question))))

\* The bag of the items of a sequence
BagOfSeq(seq) ==
    [w \in {seq[i] : i \in 1..Len(seq)} |->
        Cardinality({i \in 1..Len(seq) : seq[i] = w})]

\* QADatabase._calculate_similarity_hash: the digest of the sorted
\* significant words, that is of their bag
SimilarityHash(question) ==
    LET words == Split(NormalizeQuestion(question))
        long == SelectSeq(words, LAMBDA w : Len(w) > 3)
        significant_words == SubSeq(long, 1, Min(4, Len(long)))
    IN  <<"md5", BagOfSeq(significant_words)>>

\* QADatabase._fuzzy_similarity
FuzzySimilarity(text1, text2) ==
    LET words1 == WordSet(NormalizeQuestion(text1))
        words2 == WordSet(NormalizeQuestion(text2))
    IN  IF words1 = {} \/ words2 = {} THEN Zero
        ELSE Ratio(Cardinality(words1 \cap words2), Cardinality(words1 \cup words2))

\* _normalize_question, _calculate_similarity_hash and _fuzzy_similarity
\* worked out once for the texts of the model
NormalizedOf == [t \in Texts |-> NormalizeQuestion(t)] @@ <<>>
HashOf == [t \in Texts |-> SimilarityHash(t)] @@ <<>>
SimilarityOf ==
    [p \in Texts \X Texts |-> FuzzySimilarity(p[1], p[2])] @@ <<>>

\* Variant: a conflicting row is replaced by a new one
Upsert_Replace(table, question, answer, job_fields, time) ==
    LET normalized == NormalizedOf[question]
        hit == {i \in 1..Len(table) : table[i].question_normalized = normalized}
    IN  IF hit = {}
        THEN Append(table,
                    [id |-> Len(table) + 1,
                     question |-> question,
                     question_normalized |-> normalized,
                     answer |-> answer,
                     job_fields |-> job_fields,
                     similarity_hash |-> HashOf[question],
                     times_used |-> 1,
                     last_used |-> time])
        ELSE [i \in 1..Len(table) |->
                IF i \in hit
                THEN [table[i] EXCEPT !.question = question,
                                      !.answer = answer,
                                      !.job_fields = job_fields,
                                      !.similarity_hash = HashOf[question],
                                      !.times_used = 1,
                                      !.last_used = time]
                ELSE table[i]]

\* The INSERT ... ON CONFLICT(question_normalized) DO UPDATE of
\* store_question, on a table with UNIQUE(question_normalized) and
\* times_used DEFAULT 1
Upsert(table, question, answer, job_fields, time) ==
    LET normalized == NormalizedOf[question]
        hit == {i \in 1..Len(table) : table[i].question_normalized = normalized}
    IN  IF hit = {}
        THEN Append(table,
                    [id |-> Len(table) + 1,
                     question |-> question,
                     question_normalized |-> normalized,
                     answer |-> answer,
                     job_fields |-> job_fields,
                     similarity_hash |-> HashOf[question],
                     times_used |-> 1,
                     last_used |-> time])
        ELSE [i \in 1..Len(table) |->
                IF i \in hit
                THEN [table[i] EXCEPT !.answer = answer,
                                      !.job_fields = job_fields,
                                      !.times_used = @ + 1,
                                      !.last_used = time]
                ELSE table[i]]

\* The UPDATE ... WHERE id = ? of update_usage
Touched(table, question_id, time) ==
    [i \in 1..Len(table) |->
        IF table[i].id = question_id
        THEN [table[i] EXCEPT !.times_used = @ + 1, !.last_used = time]
        ELSE table[i]]

\* QADatabase.store_question; ok is false when the database raises, the
\* call then returns False and nothing is written
StoreQuestion(question, answer, job_fields, ok) ==
    /\ now < MaxWrites
    /\ now' = now + 1
    /\ db' = IF ok THEN Upsert(db, question, answer, job_fields, now') ELSE db
    /\ d_last' = <<"store", question, answer, job_fields, ok>>
    /\ UNCHANGED <<f_result, dfixed>>

\* QADatabase.update_usage
UpdateUsage(question_id, ok) ==
    /\ now < MaxWrites
    /\ now' = now + 1
    /\ db' = IF ok THEN Touched(db, question_id, now') ELSE db
    /\ d_last' = <<"usage", question_id, ok>>
    /\ UNCHANGED <<f_result, dfixed>>

InitDb ==
    /\ config \in JobConfig
    /\ RecoveryInit
    /\ ExtInit

NextDb ==
    \/ \E question \in Questions, answer \in Answers, job_fields \in JobFields,
          ok \in BOOLEAN :
          StoreQuestion(question, answer, job_fields, ok)
    \/ \E question_id \in 1..(Len(db) + 1), ok \in BOOLEAN :
          UpdateUsage(question_id, ok)

DbSpec == InitDb /\ [][NextDb]_vars

\* ------------------------------------- QADatabase.find_similar_question
\* The None returned when no row is found
NoRow == [id |-> 0]

\* LIMIT 5 of the similarity-hash query
CandidateLimit == 5

\* ORDER BY times_used DESC, last_used DESC; two rows never share a
\* last_used time here, the id settles the order if they do
Before(r1, r2) ==
    \/ r1.times_used > r2.times_used
    \/ /\ r1.times_used = r2.times_used
       /\ \/ r1.last_used > r2.last_used
          \/ r1.last_used = r2.last_used /\ r1.id < r2.id

\* The rows of a set in the order of the query
Ranked(rows) ==
    [k \in 1..Cardinality(rows) |->
        CHOOSE r \in rows : Cardinality({r2 \in rows : Before(r2, r)}) = k - 1]

\* The loop over the candidates: the first candidate of the highest score
\* at or above the threshold
RECURSIVE BestMatch(_, _, _, _, _)
BestMatch(candidates, question, threshold, best_match, best_score) ==
    IF candidates = <<>> THEN best_match
    ELSE LET candidate == Head(candidates)
             score == SimilarityOf[<<question, candidate.question>>]
         IN  IF Greater(score, best_score) /\ AtLeast(score, threshold)
             THEN BestMatch(Tail(candidates), question, threshold, candidate, score)
             ELSE BestMatch(Tail(candidates), question, threshold, best_match,
                            best_score)

\* QADatabase.find_similar_question
FindSimilarQuestion(table, question, threshold) ==
    LET rows == {table[i] : i \in 1..Len(table)}
        exact ==
            Ranked({r \in rows : r.question_normalized = NormalizedOf[question]})
        bucket == Ranked({r \in rows : r.similarity_hash = HashOf[question]})
        candidates == SubSeq(bucket, 1, Min(CandidateLimit, Len(bucket)))
    IN  IF exact # <<>> THEN exact[1]
        ELSE BestMatch(candidates, question, threshold, NoRow, Zero)

\* The table after the questions of a sequence were stored one after the
\* other
RECURSIVE Stored(_)
Stored(questions) ==
    IF questions = <<>> THEN <<>>
    ELSE LET n == Len(questions)
         IN  Upsert(Stored(SubSeq(questions, 1, n - 1)), questions[n], "yes", "",
                    0)

\* The rows of a table written one per tick, the last one at a given time
Aged(table, latest) ==
    [i \in 1..Len(table) |->
        [table[i] EXCEPT !.last_used = latest + i - Len(table)]]

StoreOrders ==
    {<<WorkABCD, TeamABC, WorkA, WorkB, WorkC, WorkD, WorkE>>,
     <<WorkA, WorkB, WorkC, WorkD, WorkE, TeamABC, WorkABCD>>}
StoredTables ==
    {Aged(Stored(SubSeq(o, 1, n)), MaxWrites - 1) :
        o \in StoreOrders, n \in {2, 6, 7}}

FindQuestions == {WorkABC, WorkA_Mark}
Thresholds == {Ratio(1, 2), Ratio(4, 5)}

\* A call of find_similar_question on the database
FindCall(question, threshold) ==
    /\ f_result' = FindSimilarQuestion(db, question, threshold)
    /\ d_last' = <<"find", question, threshold>>
    /\ UNCHANGED <<db, now, dfixed>>

InitFind ==
    /\ config \in JobConfig
    /\ RecoveryInit
    /\ sr_log = <<>>
    /\ JobVarsInit("off")
    /\ SubmitVarsInit("off")
    /\ db \in StoredTables
    /\ now = MaxWrites - 1
    /\ d_last = <<"none">>
    /\ f_result = [id |-> 0]
    /\ HandlerVarsInit
    /\ FormVarsInit

NextFind ==
    \/ \E question \in FindQuestions, threshold \in Thresholds :
          FindCall(question, threshold)
    \/ \E question_id \in 1..Len(db), ok \in BOOLEAN :
          UpdateUsage(question_id, ok)

FindSpec == InitFind /\ [][NextFind]_vars

\* ------------------------------------------------------ QuestionHandler
\* State outside the question handler and the database
hfixed == <<config, strategy, rrest, svars, jvars, uvars, fvars>>

\* QuestionHandler.normalize_question_text
NormalizeQuestionText(text) ==
    IF text = <<>> THEN <<>> ELSE CollapseSpaces(Lower(Strip(text)))

\* QuestionHandler._score_match
ScoreMatch(q, key) ==
    LET qn == WordSet(q)
        kn == WordSet(NormalizeQuestionText(key))
    IN  IF q = <<>> \/ key = <<>> THEN Zero
        ELSE IF qn = {} \/ kn = {} THEN Zero
        ELSE Ratio(Cardinality(qn \cap kn), Max(Cardinality(qn), Cardinality(kn)))

\* The scoring loop of match_answer: the index of the first key of the
\* highest score above zero, 0 if there is none
RECURSIVE BestKey(_, _, _, _, _)
BestKey(answers_map, q, i, best_key, best_score) ==
    IF i > Len(answers_map) THEN [key |-> best_key, score |-> best_score]
    ELSE LET score == ScoreMatch(q, answers_map[i][1])
         IN  IF Greater(score, best_score)
             THEN BestKey(answers_map, q, i + 1, i, score)
             ELSE BestKey(answers_map, q, i + 1, best_key, best_score)

\* QuestionHandler.match_answer; found is false for the None it returns
MatchAnswer(question_text, answers_map) ==
    LET q == NormalizeQuestionText(question_text)
        direct ==
            {i \in 1..Len(answers_map) :
                NormalizeQuestionText(answers_map[i][1]) = q}
        first == CHOOSE i \in direct : \A j \in direct : i <= j
        best == BestKey(answers_map, q, 1, 0, Zero)
    IN  IF direct # {}
        THEN [found |-> TRUE, value |-> answers_map[first][2],
              score |-> Ratio(1, 1)]
        ELSE IF best.key = 0
        THEN [found |-> FALSE, value |-> "", score |-> Zero]
        ELSE [found |-> TRUE, value |-> answers_map[best.key][2],
              score |-> best.score]

\* The default min_score of answer_question_element, 0.45
MinScore == Ratio(9, 20)
\* The threshold the handler passes to find_similar_question, 0.8
DbThreshold == Ratio(4, 5)
\* The score given to a database or AI answer, 0.9
AiScore == Ratio(9, 10)

\* The static answers map and the texts of the question elements
AnswersMap == <<<<TeamA, "jane">>>>
HandlerTexts == {TeamA_Spaced, WorkA, WorkABC, WorkABCD, WorkE}
\* What ai_handler.answer_question returns; "" when it has no answer
AiReplies == {"", "yes", "no"}
\* The input element of the question: none found, or an element
InputElements == {NoElement} \cup Elements

\* The element text stripped, and match_answer on its normalized form,
\* worked out once for the texts of the model
StrippedOf == [t \in Texts |-> Strip(t)] @@ <<>>
MatchOf ==
    [t \in Texts |-> MatchAnswer(NormalizeQuestionText(t), AnswersMap)] @@ <<>>

\* Variant: the AI handler is asked whatever the database returned
AskAi_Always(ai_answer, use_ai) == use_ai

\* The condition of step 2: not ai_answer and self.use_ai and self.ai_handler
AskAi(ai_answer, use_ai) == ai_answer = "" /\ use_ai

\* Variant: the AI answer is not stored
AfterAi_NoStore(table, has_db, text, ai_answer, time, ok) == table

\* The table after the store_question call that follows an AI answer
AfterAi(table, has_db, text, ai_answer, time, ok) ==
    IF has_db /\ ok THEN Upsert(table, text, ai_answer, "acme", time) ELSE table

\* (matched is None) or (score < min_score)
Low(matched) == ~matched.found \/ ~AtLeast(matched.score, MinScore)

\* What answer_question_element has worked out, from the static match
\* and the row the database returned, when it looks for the input element
\* or returns "skipped": the AI answer and the table the call leaves
Resolution(table, cfg, text, matched, db_result, ai_reply, store_ok, time) ==
    LET low == Low(matched)
        use_db == low /\ cfg.has_db
        db_hit == db_result # NoRow
        db_answer == IF db_hit THEN db_result.answer ELSE ""
        time1 == IF db_hit THEN time + 1 ELSE time
        db1 == IF db_hit THEN Touched(table, db_result.id, time1) ELSE table
        ask_ai == low /\ AskAi(db_answer, cfg.use_ai)
        ai_answer == IF ask_ai THEN ai_reply ELSE db_answer
        store == ask_ai /\ ai_reply # ""
        time2 == IF store /\ cfg.has_db THEN time1 + 1 ELSE time1
        db2 == IF store
               THEN AfterAi(db1, cfg.has_db, text, ai_reply, time2, store_ok)
               ELSE db1
    IN  [matched |-> matched, low |-> low, use_db |-> use_db,
         db_result |-> db_result, db_hit |-> db_hit, db_answer |-> db_answer,
         ask_ai |-> ask_ai, ai_answer |-> ai_answer, store |-> store,
         table |-> db2, time |-> time2]

\* answer_question_element up to the search for the input element
Resolve(element_text, ai_reply, store_ok) ==
    /\ h_pc = "idle"
    /\ now < MaxWrites
    /\ \E text \in {StrippedOf[element_text]} :
       \E matched \in {MatchOf[text]} :
       \E db_result \in {IF Low(matched) /\ h_cfg.has_db
                         THEN FindSimilarQuestion(db, text, DbThreshold)
                         ELSE NoRow} :
       \E r \in {Resolution(db, h_cfg, text, matched, db_result, ai_reply, store_ok,
                            now)} :
       LET call == [NoCall EXCEPT
                       !.text = text,
                       !.matched = r.matched.found,
                       !.static_score = r.matched.score,
                       !.consulted = <<"static">>
                                     \o (IF r.use_db THEN <<"database">> ELSE <<>>)
                                     \o (IF r.ask_ai THEN <<"ai">> ELSE <<>>),
                       !.db_hit = r.db_hit,
                       !.db_answer = r.db_answer,
                       !.ai_answer = r.ai_answer,
                       !.source = IF r.store THEN "ai"
                                  ELSE IF r.db_hit THEN "database" ELSE "static"]
       IN  /\ db' = r.table
           /\ now' = r.time
           /\ f_result' = IF r.use_db THEN r.db_result ELSE f_result
           /\ d_last' =
                IF r.store /\ h_cfg.has_db
                THEN <<"store", text, ai_reply, "acme", store_ok>>
                ELSE IF r.db_hit THEN <<"usage", r.db_result.id, TRUE>>
                ELSE IF r.use_db THEN <<"find", text, DbThreshold>>
                ELSE d_last
           /\ IF ~r.low
              THEN /\ h_pc' = "fill"
                   /\ h_last' = [call EXCEPT !.answer = r.matched.value,
                                             !.score = r.matched.score]
              ELSE IF r.ai_answer # ""
              THEN /\ h_pc' = "fill"
                   /\ h_last' = [call EXCEPT !.answer = r.ai_answer,
                                             !.score = AiScore]
              ELSE /\ h_pc' = "idle"
                   /\ h_last' =
                        IF ~r.matched.found
                        THEN [call EXCEPT !.status = "skipped",
                                          !.reason = "no_answer",
                                          !.source = "none"]
                        ELSE [call EXCEPT !.status = "skipped",
                                          !.reason = "low_confidence",
                                          !.score = r.matched.score,
                                          !.source = "static"]
           /\ UNCHANGED <<h_cfg, hfixed>>

\* The type-specific fill of answer_question_element: the operations it
\* attempts on the input element and the reason of the failure it reports,
\* "" when it reports none. A file input is no case of its own here: it
\* takes the last branch and is typed into.
QuestionFill(el) ==
    IF el.type = "select"
    THEN IF ~el.raises /\ el.has_text
         THEN [reason |-> "", ops |-> <<"select_by_visible_text">>]
         ELSE IF ~el.raises /\ el.has_value
         THEN [reason |-> "",
               ops |-> <<"select_by_visible_text", "select_by_value">>]
         ELSE [reason |-> "select_failed",
               ops |-> <<"select_by_visible_text", "select_by_value">>]
    ELSE IF el.type = "checkbox"
    THEN IF el.raises
         THEN [reason |-> "click_failed", ops |-> <<"is_selected">>]
         ELSE [reason |-> "",
               ops |-> IF el.is_selected THEN <<"is_selected">>
                       ELSE <<"is_selected", "click">>]
    ELSE IF el.raises
         THEN [reason |-> "typing_failed", ops |-> <<"clear">>]
         ELSE [reason |-> "", ops |-> <<"clear", "send_keys">>]

\* answer_question_element from the search for the input element on;
\* input_el is NoElement when find_element raises
Fill(input_el) ==
    /\ h_pc = "fill"
    /\ h_pc' = "idle"
    /\ h_last' =
         IF input_el = NoElement
         THEN [h_last EXCEPT !.status = "failed", !.reason = "no_input",
                             !.touched = <<"find_element">>]
         ELSE LET fill == QuestionFill(input_el)
              IN  [h_last EXCEPT
                      !.status = IF fill.reason = "" THEN "answered"
                                 ELSE "failed",
                      !.reason = fill.reason,
                      !.input = input_el,
                      !.touched = <<"find_element">> \o fill.ops]
    /\ UNCHANGED <<h_cfg, dvars, hfixed>>

InitHandler ==
    /\ config \in JobConfig
    /\ RecoveryInit
    /\ sr_log = <<>>
    /\ JobVarsInit("off")
    /\ SubmitVarsInit("off")
    /\ DbVarsInit
    /\ h_cfg \in [has_db : BOOLEAN, use_ai : BOOLEAN]
    /\ h_pc = "idle"
    /\ h_last = NoCall
    /\ FormVarsInit

NextHandler ==
    \/ \E element_text \in HandlerTexts, ai_reply \in AiReplies,
          store_ok \in BOOLEAN :
          Resolve(element_text, ai_reply, store_ok)
    \/ \E input_el \in InputElements : Fill(input_el)

HandlerSpec == InitHandler /\ [][NextHandler]_vars

\* --------------------------------------------------------- FormHandler
\* State outside the form handler
ffixed == <<config, strategy, rrest, svars, jvars, uvars, dvars, hvars>>

\* FormHandler._normalize
Normalize(str) == CollapseSpaces(Lower(Strip(str)))

\* Variant: the words are compared as written
TokenOverlap_AsWritten(a, b) ==
    LET ta == WordSet(a)
        tb == WordSet(b)
    IN  IF ta = {} \/ tb = {} THEN Zero
        ELSE Ratio(Cardinality(ta \cap tb), Max(Cardinality(ta), Cardinality(tb)))

\* FormHandler._token_overlap
TokenOverlap(a, b) ==
    LET ta == WordSet(Normalize(a))
        tb == WordSet(Normalize(b))
    IN  IF ta = {} \/ tb = {} THEN Zero
        ELSE Ratio(Cardinality(ta \cap tb), Max(Cardinality(ta), Cardinality(tb)))

\* The token overlap at which an answer is taken, 0.6
OverlapFloor == Ratio(3, 5)

\* Labels of form fields and keys of the answers mapping
FirstNameLabel == <<"F", "i", "r", "s", "t", " ", "N", "a", "m", "e">>
FirstNameKey == <<"f", "i", "r", "s", "t", " ", "n", "a", "m", "e">>
YourFirstName ==
    <<"Y", "o", "u", "r", " ", "f", "i", "r", "s", "t", " ", "n", "a", "m", "e">>
City == <<"C", "i", "t", "y">>
Fn == <<"f", "n">>

\* Keys, types and label candidates of the fields of the forms
FieldLabels ==
    {[key |-> FirstNameLabel, type |-> "text",
      label_candidates |-> <<FirstNameLabel>>],
     [key |-> FirstNameKey, type |-> "select",
      label_candidates |-> <<FirstNameKey>>],
     [key |-> YourFirstName, type |-> "checkbox",
      label_candidates |-> <<YourFirstName>>],
     [key |-> City, type |-> "file", label_candidates |-> <<City>>],
     [key |-> City, type |-> "text", label_candidates |-> <<City>>],
     [key |-> Fn, type |-> "text", label_candidates |-> <<Fn, FirstNameLabel>>]}

\* The entry detect_fields makes for an element
Field(key, element, label_candidates) ==
    [key |-> key, type |-> element.type, element |-> element,
     label_candidates |-> label_candidates]

\* The elements of the forms: none raises (a select without the option
\* and a missing file give the failed fields), and no select is told apart
\* by the values of its options, which fill_form never reads
FormElements == {e \in Elements : ~e.raises /\ ~e.has_value}

\* Entries of the mapping detect_fields returns
FieldSet ==
    UNION {{Field(f.key, e, f.label_candidates) :
               e \in {x \in FormElements : x.type = f.type}} :
           f \in FieldLabels}

\* detect_fields results: up to MaxFields entries, no key twice
Forms ==
    {f \in UNION {[1..n -> FieldSet] : n \in 1..MaxFields} :
        \A i, j \in 1..Len(f) : i # j => f[i].key # f[j].key}

\* answers mappings
AnswerMaps ==
    {<<<<FirstNameKey, "Jane">>>>,
     <<<<FirstNameLabel, "Ann">>, <<FirstNameKey, "Jane">>>>}

\* The value None and key None returned when nothing matches
NoAnswer == [found |-> FALSE, answer |-> "", matched_key |-> <<>>]

\* The first pair of a sequence of pairs that satisfies a test
FirstPair(pairs, Test(_)) ==
    LET hits == {i \in 1..Len(pairs) : Test(pairs[i])}
    IN  IF hits = {} THEN 0 ELSE CHOOSE i \in hits : \A j \in hits : i <= j

\* norm_map[nk]: the value of the last key of the mapping that normalizes
\* to nk
NormMap(mapping, nk) ==
    LET hits == {i \in 1..Len(mapping) : Normalize(mapping[i][1]) = nk}
    IN  mapping[CHOOSE i \in hits : \A j \in hits : i >= j][2]

\* Candidate and key pairs in the order of the nested loops of step (c)
RECURSIVE Pairs(_, _)
Pairs(candidates, mapping) ==
    IF candidates = <<>> THEN <<>>
    ELSE [i \in 1..Len(mapping) |-> <<Head(candidates), i>>]
         \o Pairs(Tail(candidates), mapping)

\* find_answer_for_field of fill_form
FindAnswerForField(candidates, mapping) ==
    LET keys == {mapping[i][1] : i \in 1..Len(mapping)}
        exact == FirstPair(candidates, LAMBDA key : key \in keys)
        norms == {Normalize(mapping[i][1]) : i \in 1..Len(mapping)}
        normal == FirstPair(candidates, LAMBDA key : Normalize(key) \in norms)
        pairs == Pairs(candidates, mapping)
        token ==
            FirstPair(pairs,
                      LAMBDA p : AtLeast(TokenOverlap(p[1], mapping[p[2]][1]),
                                         OverlapFloor))
    IN  IF exact # 0
        THEN [found |-> TRUE,
              answer |-> mapping[CHOOSE i \in 1..Len(mapping) :
                                    mapping[i][1] = candidates[exact]][2],
              matched_key |-> candidates[exact]]
        ELSE IF normal # 0
        THEN [found |-> TRUE,
              answer |-> NormMap(mapping, Normalize(candidates[normal])),
              matched_key |-> candidates[normal]]
        ELSE IF token # 0
        THEN [found |-> TRUE,
              answer |-> mapping[pairs[token][2]][2],
              matched_key |-> mapping[pairs[token][2]][1]]
        ELSE NoAnswer

\* fill_text, select_option, click_checkbox and upload_file for an answer
\* that is a non-empty string: whether the call returns True and the
\* operations it attempts on the element
TypeFill(ftype, el) ==
    IF ftype = "text"
    THEN [ok |-> ~el.raises,
          ops |-> IF el.raises THEN <<"clear">> ELSE <<"clear", "send_keys">>]
    ELSE IF ftype = "select"
    THEN [ok |-> ~el.raises /\ el.has_text, ops |-> <<"select_by_visible_text">>]
    ELSE IF ftype = "checkbox"
    THEN [ok |-> ~el.raises,
          ops |-> IF el.raises \/ el.is_selected THEN <<"is_selected">>
                  ELSE <<"is_selected", "click">>]
    ELSE IF ~el.path_exists THEN [ok |-> FALSE, ops |-> <<>>]
    ELSE [ok |-> ~el.raises, ops |-> <<"send_keys">>]

\* Variant: a field without an answer is filled like any other
FieldOutcome_NoSkip(found, ftype, el) ==
    LET fill == TypeFill(ftype, el)
    IN  [status |-> IF fill.ok THEN "ok" ELSE "failed", ops |-> fill.ops]

\* The body of the loop of fill_form for one field: the status reported
\* and the operations made on the element
FieldOutcome(found, ftype, el) ==
    IF ~found THEN [status |-> "skipped", ops |-> <<>>]
    ELSE LET fill == TypeFill(ftype, el)
         IN  [status |-> IF fill.ok THEN "ok" ELSE "failed", ops |-> fill.ops]

\* fill_form up to its loop: detect_fields, result = {}
StartFillForm(form, mapping) ==
    /\ ff_pc = "idle"
    /\ ff_pc' = "loop"
    /\ fields' = form
    /\ answers' = mapping
    /\ idx' = 0
    /\ form_result' = <<>>
    /\ element_ops' = <<>>
    /\ percents' = <<>>
    /\ UNCHANGED <<overlap_calls, ffixed>>

\* One turn of the loop of fill_form
FillField ==
    /\ ff_pc = "loop"
    /\ idx < Len(fields)
    /\ \E meta \in {fields[idx + 1]} :
       \E match \in {FindAnswerForField(meta.label_candidates, answers)} :
       \E outcome \in {FieldOutcome(match.found, meta.type, meta.element)} :
          /\ form_result' =
               Append(form_result,
                      IF outcome.status = "skipped"
                      THEN [key |-> meta.key, status |-> "skipped",
                            reason |-> "no_answer", matched_key |-> <<>>,
                            type |-> "", value |-> ""]
                      ELSE [key |-> meta.key, status |-> outcome.status,
                            reason |-> "", matched_key |-> match.matched_key,
                            type |-> meta.type, value |-> match.answer])
          /\ element_ops' =
               element_ops
               \o [k \in 1..Len(outcome.ops) |-> <<meta.key, outcome.ops[k]>>]
          /\ percents' =
               IF outcome.status = "skipped" THEN percents
               ELSE Append(percents, ((idx + 1) * 100) \div Len(fields))
    /\ idx' = idx + 1
    /\ UNCHANGED <<fields, answers, ff_pc, overlap_calls, ffixed>>

\* return result
FillFormReturns ==
    /\ ff_pc = "loop"
    /\ idx = Len(fields)
    /\ ff_pc' = "idle"
    /\ UNCHANGED <<fields, answers, idx, form_result, element_ops, percents,
                   overlap_calls, ffixed>>

InitForm ==
    /\ config \in JobConfig
    /\ RecoveryInit
    /\ ExtInit

NextForm ==
    \/ \E form \in Forms, mapping \in AnswerMaps : StartFillForm(form, mapping)
    \/ FillField
    \/ FillFormReturns

FormSpec == InitForm /\ [][NextForm]_vars

\* ------------------------------------------------------ ErrorDetector
\* A page as detect_error sees it. url: what current_url holds, "login"
\* for linkedin.com/login or linkedin.com/uas/login, "checkpoint" for a URL
\* with checkpoint, challenge or /security/, "feed" for any other.
\* captcha_element, login_form: one of the selectors finds a displayed
\* element. phrases: the kinds of phrase page_source holds; "apply" is the
\* word whose absence means the form is missing.
ErrorPages ==
    [url : {"feed", "login", "checkpoint"},
     captcha_element : BOOLEAN,
     login_form : BOOLEAN,
     phrases : SUBSET {"captcha", "rate_limit", "session", "network", "apply"}]

\* ErrorDetector._check_captcha
CheckCaptcha(pg) ==
    \/ pg.url = "checkpoint"
    \/ pg.captcha_element
    \/ "captcha" \in pg.phrases

\* ErrorDetector._check_rate_limit
CheckRateLimit(pg) == "rate_limit" \in pg.phrases

\* ErrorDetector._check_session_timeout
CheckSessionTimeout(pg) ==
    \/ pg.url = "login"
    \/ pg.login_form
    \/ "session" \in pg.phrases

\* ErrorDetector._check_network_error
CheckNetworkError(pg) == "network" \in pg.phrases

\* ErrorDetector._check_form_not_found
CheckFormNotFound(pg) == "apply" \notin pg.phrases

\* ErrorDetector.detect_error: the error type returned
DetectErrorOn(pg) ==
    IF CheckCaptcha(pg) THEN CAPTCHA
    ELSE IF CheckRateLimit(pg) THEN RATE_LIMIT
    ELSE IF CheckSessionTimeout(pg) THEN SESSION_TIMEOUT
    ELSE IF CheckNetworkError(pg) THEN NETWORK_ERROR
    ELSE IF CheckFormNotFound(pg) THEN FORM_NOT_FOUND
    ELSE UNKNOWN_ERROR

\* State the detector never writes, page apart
dfixed_page ==
    <<config, strategy, captcha_resume_event, cancel_requested, captcha_events,
      pc, attempt, result, wait_elapsed, calls, resume_requests, invocations,
      last_outcome, sleeps, callbacks, waits, captcha_rounds, captcha_total,
      svars, jvars, qvars, u_pc, step, stuck_count, last_url, last_page_hash,
      clicks, unchanged_next, u_result>>

\* The browser comes to show the page pg
ShowPage(pg) ==
    /\ page' = pg
    /\ UNCHANGED <<detects, seen, dfixed_page>>

\* detect_error() on the page shown
DetectErrorCall ==
    /\ page \in ErrorPages
    /\ detects < MaxCalls
    /\ detects' = detects + 1
    /\ seen' = seen \cup {DetectErrorOn(page)}
    /\ UNCHANGED <<page, dfixed_page>>

NextDetect ==
    \/ \E pg \in ErrorPages : ShowPage(pg)
    \/ DetectErrorCall

DetectSpec == InitForm /\ [][NextDetect]_vars

\* ------------------------------------------------ the overlap scores
\* Arguments of the score functions: no text, blank text, and labels that
\* are equal when normalized, share words, or share none
OverlapTexts ==
    {<<>>, <<" ">>, City, FirstNameLabel, FirstNameKey, YourFirstName}

\* The calls kept: the latest two
LastTwo(made) ==
    IF Len(made) <= 2 THEN made ELSE SubSeq(made, Len(made) - 1, Len(made))

\* A call of FormHandler._token_overlap
TokenOverlapCall(a, b) ==
    /\ overlap_calls' =
         LastTwo(Append(overlap_calls,
                        [fn |-> "_token_overlap", a |-> a, b |-> b,
                         score |-> TokenOverlap(a, b)]))
    /\ UNCHANGED <<fields, answers, ff_pc, idx, form_result, element_ops,
                   percents, ffixed>>

\* A call of QuestionHandler._score_match
ScoreMatchCall(q, key) ==
    /\ overlap_calls' =
         LastTwo(Append(overlap_calls,
                        [fn |-> "_score_match", a |-> q, b |-> key,
                         score |-> ScoreMatch(q, key)]))
    /\ UNCHANGED <<fields, answers, ff_pc, idx, form_result, element_ops,
                   percents, ffixed>>

NextOverlap ==
    \/ \E a \in OverlapTexts, b \in OverlapTexts : TokenOverlapCall(a, b)
    \/ \E q \in OverlapTexts, key \in OverlapTexts : ScoreMatchCall(q, key)

OverlapSpec == InitForm /\ [][NextOverlap]_vars

\* ------------------------------------- the two type fills side by side
\* One-field forms around each element, the field named by the key of
\* AnswersMap, so that fill_form finds the answer the question handler
\* finds for the question TeamA
TypeFillForms == {<<Field(TeamA, e, <<TeamA>>)>> : e \in Elements}

\* A question handler and a form handler given the same answers, each
\* filling one element at a time
NextTypeFill ==
    \/ \E element_text \in {TeamA, TeamA_Spaced} :
          Resolve(element_text, "", TRUE)
    \/ \E input_el \in InputElements : Fill(input_el)
    \/ \E form \in TypeFillForms : StartFillForm(form, AnswersMap)
    \/ FillField
    \/ FillFormReturns

TypeFillSpec == InitForm /\ [][NextTypeFill]_vars

TypeOK ==
    /\ config \in ErrorRecoveryConfig
    /\ pc \in {"idle", "action", "detect", "captcha_clear", "captcha_callback",
               "captcha_wait", "done"}
    /\ captcha_resume_event \in BOOLEAN
    /\ cancel_requested \in BOOLEAN
    /\ attempt \in 0..(MaxRetriesBound + 1)

\* ------------------------------------------------------------ properties
CaptchaPcs == {"captcha_clear", "captcha_callback", "captcha_wait"}
Returned == pc = "done"

\* Rows of the audit log that the worker writes
Audit == SelectSeq(captcha_events, LAMBDA e : e \in {"paused", "resumed", "timeout"})
Count(log, e) == Cardinality({i \in 1..Len(log) : log[i] = e})

\* C1: when every failed attempt of a call is classified RateLimit (or every
\* one NetworkError) and the action never succeeds, the action is invoked at
\* most max_retries + 1 times, and the call returns after exactly
\* max_retries + 1 invocations with (False, "Max retries exceeded").
C1_MaxRetriesExceeded ==
    (seen \in {{RATE_LIMIT}, {NETWORK_ERROR}} /\ last_outcome = "false") =>
        /\ invocations <= config.max_retries + 1
        /\ Returned =>
              /\ invocations = config.max_retries + 1
              /\ result = Failure("Max retries exceeded")

C1_Witness ==
    /\ pc = "done"
    /\ seen = {RATE_LIMIT}
    /\ config.max_retries >= 1
    /\ invocations = config.max_retries + 1
    /\ result = Failure("Max retries exceeded")

\* C2: in a call whose every classification is RateLimit the k-th backoff
\* slept (k = 0, 1, ...) is min(initial_backoff * multiplier^k, max_backoff),
\* and get_backoff_time() after k increase_backoff() calls is that value and
\* never exceeds max_backoff.
C2_BackoffSchedule ==
    (seen \subseteq {RATE_LIMIT}) =>
        /\ \A k \in 1..Len(sleeps) :
              sleeps[k] = Min(config.initial_backoff
                                * Pow(config.backoff_multiplier, k - 1),
                              config.max_backoff)
        /\ GetBackoffTime(strategy, config)
              = Min(config.initial_backoff
                      * Pow(config.backoff_multiplier, strategy.retry_count),
                    config.max_backoff)
        /\ GetBackoffTime(strategy, config) <= config.max_backoff

C2_Witness ==
    /\ seen = {RATE_LIMIT}
    /\ sleeps = <<2, 4, 5>>
    /\ strategy.retry_count = 3

\* C3: if the first invocation of the action returns true, the call returns
\* (True, None) after that single invocation, with no sleep and without a
\* detect_error() call.
C3_SuccessFirstTry ==
    (invocations = 1 /\ last_outcome = "true") =>
        /\ Returned
        /\ result = Success
        /\ sleeps = <<>>
        /\ detects = 0
        /\ waits = 0

C3_Witness ==
    /\ pc = "done"
    /\ invocations = 1
    /\ last_outcome = "true"
    /\ result = Success

\* C4: with captcha_blocking_wait disabled, a Captcha classification ends the
\* call with a failure: no invocation and no sleep follow it, the
\* pause-callback is not invoked and the resume event is not waited on; when
\* it is the first classification of the call, there was exactly one
\* invocation and no sleep at all.
C4_CaptchaNonBlocking ==
    (~config.captcha_blocking_wait /\ CAPTCHA \in seen) =>
        /\ Returned
        /\ result = Failure("CAPTCHA detected")
        /\ callbacks = 0
        /\ waits = 0
        /\ invocations = detects
        /\ Len(sleeps) = detects - 1
        /\ (seen = {CAPTCHA} => invocations = 1 /\ sleeps = <<>>)

C4_Witness ==
    /\ ~config.captcha_blocking_wait
    /\ config.captcha_pause_callback
    /\ seen = {CAPTCHA}
    /\ pc = "done"
    /\ invocations = 1

\* C5: from the Captcha classification to the re-invocation of the action the
\* attempt counter and the retry state (retry_count, current_backoff) do not
\* change, and a resumed wait always leads to another invocation.
C5_ResumeKeepsBudget ==
    [][/\ (pc' = "captcha_clear" \/ pc \in CaptchaPcs) =>
              (attempt' = attempt /\ strategy' = strategy)
       /\ (pc = "captcha_wait" /\ captcha_resume_event /\ pc' # pc) =>
              pc' = "action"]_vars

C5_Witness ==
    /\ pc = "action"
    /\ captcha_rounds = 2
    /\ attempt = 1
    /\ Len(Audit) >= 4
    /\ Audit[Len(Audit)] = "resumed"
    /\ Audit[Len(Audit) - 2] = "resumed"

\* C6: the worker leaves the CAPTCHA wait only when the resume event is set
\* or captcha_max_wait has elapsed; a cancel request changes neither the
\* worker's position nor the resume event.
C6_WaitReleasedOnlyByResumeOrTimeout ==
    /\ [][(pc = "captcha_wait" /\ pc' # "captcha_wait") =>
             (captcha_resume_event \/ wait_elapsed >= config.captcha_max_wait)]_vars
    /\ [][(cancel_requested' # cancel_requested) =>
             UNCHANGED <<pc, captcha_resume_event, wait_elapsed>>]_vars

C6_Witness ==
    /\ pc = "captcha_wait"
    /\ cancel_requested
    /\ ~captcha_resume_event
    /\ wait_elapsed >= 1
    /\ wait_elapsed < config.captcha_max_wait

\* C7: a worker blocked in the CAPTCHA wait eventually leaves it; without a
\* resume signal it leaves by the timeout after captcha_max_wait, returning
\* "CAPTCHA timeout" with no further invocation; the action is re-invoked
\* after a Captcha classification only when the resume event is set.
C7_CaptchaPauseEnds ==
    /\ (pc = "captcha_wait") ~> (pc # "captcha_wait")
    /\ [][(pc = "captcha_wait" /\ ~captcha_resume_event /\ pc' # pc) =>
             /\ wait_elapsed >= config.captcha_max_wait
             /\ pc' = "done"
             /\ result' = Failure("CAPTCHA timeout")
             /\ invocations' = invocations]_vars
    /\ [][(pc \in CaptchaPcs /\ pc' = "action") => captcha_resume_event]_vars

C7_Witness ==
    /\ pc = "done"
    /\ result = Failure("CAPTCHA timeout")
    /\ resume_requests = 0
    /\ wait_elapsed = config.captcha_max_wait

C9_UnknownAborts ==
    (UNKNOWN_ERROR \in seen) =>
        /\ Returned
        /\ result = Failure("Unknown error")
        /\ invocations = detects
        /\ Len(sleeps) = detects - captcha_rounds - 1

C9_Witness ==
    /\ pc = "done"
    /\ seen = {RATE_LIMIT, NETWORK_ERROR, UNKNOWN_ERROR}
    /\ result = Failure("Unknown error")

\* C10: an exception raised by the action ends the call with (False, message):
\* it is returned, not propagated, and neither an invocation nor a sleep
\* follows it.
C10_ExceptionIsImmediateFailure ==
    (last_outcome = "raise") =>
        /\ Returned
        /\ result = Failure("exception")
        /\ invocations = detects + 1
        /\ Len(sleeps) = detects - captcha_rounds

C10_Witness ==
    /\ pc = "done"
    /\ last_outcome = "raise"
    /\ invocations >= 2
    /\ Len(sleeps) >= 1

\* C11: with session_timeout_auto_login disabled a SessionTimeout
\* classification ends the call with a failure and no sleep after it; with
\* auto-login enabled and retries remaining the call does not end on it.
C11_SessionTimeoutUnlessAutoLogin ==
    (SESSION_TIMEOUT \in seen) =>
        IF config.session_timeout_auto_login
             /\ strategy.retry_count < config.max_retries
        THEN ~(Returned /\ result = Failure("Session timeout"))
        ELSE /\ Returned
             /\ result = Failure("Session timeout")
             /\ Len(sleeps) = detects - captcha_rounds - 1

\* C12: once the RateLimit classifications of a call, all consecutive, number
\* rate_limit_max_consecutive, the call has failed and the action is not
\* invoked again.
C12_ConsecutiveRateLimitsCapped ==
    (seen = {RATE_LIMIT} /\ detects >= config.rate_limit_max_consecutive) =>
        (Returned /\ result[1] = FALSE)

\* C13: should_retry(RateLimit) adds exactly one to consecutive_rate_limits,
\* returns false when the new count is >= rate_limit_max_consecutive and
\* otherwise returns retry_count < max_retries; with the cap at 3 three calls
\* from a fresh strategy return true, true, false.
C13_ShouldRetryRateLimit ==
    /\ [][(Len(sr_log') = Len(sr_log) + 1 /\ sr_log'[Len(sr_log')][1] = RATE_LIMIT) =>
             /\ strategy'.consecutive_rate_limits = strategy.consecutive_rate_limits + 1
             /\ strategy'.retry_count = strategy.retry_count
             /\ strategy'.current_backoff = strategy.current_backoff
             /\ sr_log'[Len(sr_log')][2] =
                   IF strategy.consecutive_rate_limits + 1
                         >= config.rate_limit_max_consecutive
                   THEN FALSE
                   ELSE strategy.retry_count < config.max_retries]_vars
    /\ []((/\ config.rate_limit_max_consecutive = 3
           /\ config.max_retries >= 1
           /\ strategy.retry_count = 0
           /\ Len(sr_log) = 3
           /\ \A i \in 1..3 : sr_log[i][1] = RATE_LIMIT) =>
             sr_log = <<<<RATE_LIMIT, TRUE>>, <<RATE_LIMIT, TRUE>>, <<RATE_LIMIT, FALSE>>>>)

C13_Witness ==
    /\ config.rate_limit_max_consecutive = 3
    /\ strategy.consecutive_rate_limits = 3
    /\ sr_log = <<<<RATE_LIMIT, TRUE>>, <<RATE_LIMIT, TRUE>>, <<RATE_LIMIT, FALSE>>>>

\* C14: the retry state is at its baseline (retry_count 0, current_backoff the
\* initial backoff, consecutive_rate_limits 0) when a call of
\* attempt_with_recovery starts and whenever a call returns success.
C14_BaselineAtStartAndSuccess ==
    ((pc = "action" /\ invocations = 0) \/ (Returned /\ result = Success)) =>
        /\ strategy.retry_count = 0
        /\ strategy.current_backoff = config.initial_backoff
        /\ strategy.consecutive_rate_limits = 0

C14_Witness ==
    /\ calls = 2
    /\ Returned
    /\ result = Success
    /\ Len(sleeps) >= 1

\* C15: during apply_to_job no attempt_with_recovery call is started while
\* another call of the same recovery manager is active.
C15_NoNestedRecoveryCall == active_calls <= 1

\* C16: every run of _apply_action that ends has appended exactly one record
\* to the application history.
C16_OutcomePersisted == (jpc = "a_return") => (run_records = 1)

\* C17: once the cancel flag is set the manager performs no further page
\* interaction.
C17_NoInteractionAfterCancel == ~touched_after_cancel

\* C18: once cancel_requested is true it is never set back to false.
C18_CancelIsTerminal == [][cancel_requested => cancel_requested']_vars

C18_Witness ==
    /\ cancel_requested
    /\ job = 1
    /\ jpc = "a_begin"

\* C19: once a job has reached its terminal outcome, the values last delivered
\* to the progress callback equal the current applied/failed/skipped counters.
C19_ProgressDelivered ==
    (jpc \in {"loop", "finished"} /\ job >= 1
        /\ <<applied_count, failed_count, skipped_count>> # <<0, 0, 0>>) =>
        progress_last = <<applied_count, failed_count, skipped_count>>

\* C20: in submit_application three consecutive "Next" clicks that each leave
\* the URL and the visible form text unchanged make the call return failure,
\* and there is no fourth such click.
C20_AbortAfterThreeUnchangedClicks ==
    /\ unchanged_next >= 3 => (u_pc = "done" /\ u_result = FALSE)
    /\ unchanged_next <= 3

Stages == <<"listing", "easy_apply", "fill", "submit">>

C22_StageOrder ==
    /\ [](/\ Len(trail) <= 4
          /\ \A i \in 1..Len(trail) :
                /\ trail[i][1] = Stages[i]
                /\ i > 1 => trail[i - 1][2])
    /\ [][CopiesIn("Applied", records') > CopiesIn("Applied", records) =>
             trail' = <<<<"listing", TRUE>>, <<"easy_apply", TRUE>>,
                        <<"fill", TRUE>>, <<"submit", TRUE>>>>]_vars

C22_Witness ==
    /\ trail = <<<<"listing", TRUE>>, <<"easy_apply", TRUE>>,
                 <<"fill", TRUE>>, <<"submit", TRUE>>>>
    /\ CopiesIn("Applied", records) = 1
    /\ jpc = "a_return"

\* Two texts that differ only by case or whitespace: the same words in the
\* same order once case is ignored
SameButCaseAndSpace(s, t) == Split(Lower(s)) = Split(Lower(t))

\* C23: after any sequence of store_question and update_usage calls no
\* two rows have the same normalized question, no two rows hold questions
\* that differ only by case or whitespace, and a store whose text differs
\* only by case or whitespace from a stored question adds no row
C23_OneRowPerNormalizedQuestion ==
    /\ [](\A i, j \in 1..Len(db) :
            i # j =>
              /\ db[i].question_normalized # db[j].question_normalized
              /\ ~SameButCaseAndSpace(db[i].question, db[j].question))
    /\ [][(/\ d_last'[1] = "store"
           /\ \E i \in 1..Len(db) : SameButCaseAndSpace(db[i].question, d_last'[2]))
          => Len(db') = Len(db)]_vars

C23_Witness ==
    /\ Len(db) = 2
    /\ db[1].question = WorkA
    /\ db[1].times_used = 2
    /\ d_last = <<"store", WorkA_Spaced, "yes", "", TRUE>>

\* C24: a store that succeeds and repeats the question, answer and job
\* fields a row already holds changes nothing but that row's usage count,
\* which goes up by one, and its last-used time; no call removes a row or
\* lowers a usage count
C24_RepeatedStoreCountsUsage ==
    /\ [][\A i \in 1..Len(db) :
            (/\ d_last'[1] = "store"
             /\ now' = now + 1
             /\ d_last'[5]
             /\ db[i].question_normalized = NormalizeQuestion(d_last'[2])
             /\ db[i].answer = d_last'[3]
             /\ db[i].job_fields = d_last'[4])
            => db' = [db EXCEPT ![i].times_used = db[i].times_used + 1,
                                ![i].last_used = now']]_vars
    /\ [][\A i \in 1..Len(db) :
            /\ i <= Len(db')
            /\ db'[i].id = db[i].id
            /\ db'[i].times_used >= db[i].times_used]_vars

C24_Witness ==
    /\ Len(db) = 1
    /\ now = 2
    /\ d_last = <<"store", WorkB, "no", "acme", TRUE>>
    /\ db[1].question = WorkB
    /\ db[1].answer = "no"
    /\ db[1].times_used = 2
    /\ db[1].last_used = 2

\* C25: find_similar_question returns the row whose normalized question
\* equals the query's if there is one; otherwise, among all rows of the
\* query's similarity bucket, a row of the highest token-Jaccard similarity
\* if that similarity is at least the threshold, and nothing if no row of
\* the bucket reaches the threshold; a returned row is of the query's
\* bucket or has the query's normalized question
C25_BestOfBucket ==
    d_last[1] = "find" =>
        LET question == d_last[2]
            threshold == d_last[3]
            rows == {db[i] : i \in 1..Len(db)}
            exact ==
                {r \in rows : r.question_normalized = NormalizeQuestion(question)}
            bucket == {r \in rows : r.similarity_hash = SimilarityHash(question)}
            good ==
                {r \in bucket :
                    AtLeast(FuzzySimilarity(question, r.question), threshold)}
        IN  /\ f_result # NoRow => f_result \in bucket \cup exact
            /\ exact = {} /\ good = {} => f_result = NoRow
            /\ exact = {} /\ good # {} =>
                 /\ f_result \in good
                 /\ \A r \in bucket :
                       AtLeast(FuzzySimilarity(question, f_result.question),
                               FuzzySimilarity(question, r.question))

\* The sources a call consulted
Consulted(source) == \E i \in 1..Len(h_last.consulted) : h_last.consulted[i] = source
\* The static match of the call is missing or below the confidence floor
StaticLow == ~h_last.matched \/ ~AtLeast(h_last.static_score, MinScore)

\* C26: answer_question_element consults the static map first, the
\* database only when the static match is missing or below the floor, and
\* the AI handler only when the static match is missing or low and the
\* database gave no answer; a database hit (similarity at least 0.8) is the
\* answer used and the AI handler is not invoked
C26_StaticThenDatabaseThenAi ==
    h_last.consulted # <<>> =>
        /\ h_last.consulted \in
             {<<"static">>, <<"static", "database">>, <<"static", "ai">>,
              <<"static", "database", "ai">>}
        /\ Consulted("database") => StaticLow
        /\ Consulted("ai") => StaticLow /\ h_last.db_answer = ""
        /\ h_last.db_hit =>
             /\ Consulted("database")
             /\ ~Consulted("ai")
             /\ AtLeast(FuzzySimilarity(h_last.text, f_result.question),
                        DbThreshold)
             /\ h_last.answer = f_result.answer
             /\ h_last.status = "answered" => h_last.source = "database"

C26_Witness ==
    /\ h_cfg.use_ai
    /\ h_last.text = WorkABC
    /\ h_last.consulted = <<"static", "database">>
    /\ h_last.db_hit
    /\ f_result.question = WorkABCD
    /\ h_last.status = "answered"
    /\ h_last.source = "database"
    /\ h_last.answer = "no"

C28_SkippedWithSourceNone ==
    (h_pc = "idle" /\ h_last.status # "none") =>
        /\ (StaticLow /\ h_last.ai_answer = "") =>
             /\ h_last.status = "skipped"
             /\ h_last.source = "none"
             /\ h_last.touched = <<>>
        /\ h_last.status = "answered" =>
             \/ /\ h_last.source = "static"
                /\ ~StaticLow
                /\ h_last.answer = MatchOf[h_last.text].value
             \/ /\ h_last.source = "database"
                /\ h_last.db_hit
                /\ h_last.answer = h_last.db_answer
             \/ /\ h_last.source = "ai"
                /\ Consulted("ai")
                /\ h_last.answer = h_last.ai_answer

\* C29: every field fill_form reports as ok carries as matched_key a key of
\* the answers mapping, and the value filled in is the value of that key
C29_MatchedKeyIsAnswersKey ==
    \A i \in 1..Len(form_result) :
        form_result[i].status = "ok" =>
            \E k \in 1..Len(answers) :
                /\ answers[k][1] = form_result[i].matched_key
                /\ answers[k][2] = form_result[i].value

\* No key of the answers mapping matches a candidate label of the field:
\* not exactly, not after normalization, not by a token overlap of 0.6
NoMatch(meta) ==
    \A c \in 1..Len(meta.label_candidates), k \in 1..Len(answers) :
        LET label == meta.label_candidates[c]
            key == answers[k][1]
        IN  /\ label # key
            /\ Normalize(label) # Normalize(key)
            /\ ~AtLeast(TokenOverlap(label, key), OverlapFloor)

\* C30: a field no answer matches is reported skipped and no operation is
\* made on its element; the loop goes on: every field gets its entry, and
\* a field an answer matches is not skipped
C30_UnmatchedFieldSkipped ==
    /\ Len(form_result) = idx
    /\ ff_pc = "idle" => Len(form_result) = Len(fields)
    /\ \A i \in 1..Len(form_result) :
          /\ form_result[i].key = fields[i].key
          /\ IF NoMatch(fields[i])
             THEN /\ form_result[i].status = "skipped"
                  /\ \A k \in 1..Len(element_ops) :
                        element_ops[k][1] # fields[i].key
             ELSE form_result[i].status \in {"ok", "failed"}

C30_Witness ==
    /\ ff_pc = "idle"
    /\ Len(fields) = 2
    /\ form_result[1].key = City
    /\ form_result[1].status = "skipped"
    /\ form_result[2].status = "ok"
    /\ element_ops = <<<<FirstNameKey, "select_by_visible_text">>>>


\* C31: when fill_form has returned for a form of N >= 1 fields, the
\* progress callback has received exactly N values, each in 0..100,
\* non-decreasing, the last one 100, whatever the status of the fields
C31_ProgressAfterEachField ==
    (ff_pc = "idle" /\ Len(fields) >= 1) =>
        /\ Len(percents) = Len(fields)
        /\ \A k \in 1..Len(percents) : percents[k] \in 0..100
        /\ \A k \in 1..(Len(percents) - 1) : percents[k] <= percents[k + 1]
        /\ percents[Len(percents)] = 100


\* The operations a fill_form call of one field made on its element
FormOps == [k \in 1..Len(element_ops) |-> element_ops[k][2]]

\* A question was filled and a one-field form was filled, both calls are
\* over, and the two elements had the same type and state and got the
\* same answer
SameFill ==
    /\ h_pc = "idle"
    /\ h_last.status \in {"answered", "failed"}
    /\ h_last.input # NoElement
    /\ ff_pc = "idle"
    /\ Len(fields) = 1
    /\ form_result[1].status \in {"ok", "failed"}
    /\ fields[1].element = h_last.input
    /\ form_result[1].value = h_last.answer

\* C32: for the same input type, element state and answer the question
\* handler and the form handler make the same interactions with the
\* element and report the same success or failure
C32_SameTypeFill ==
    SameFill =>
        /\ Tail(h_last.touched) = FormOps
        /\ (h_last.status = "answered") <=> (form_result[1].status = "ok")


\* Two scores are the same number
SameScore(x, y) == x.num * y.den = y.num * x.den

\* The words of the normalized form of a string
Words(str) == WordSet(Normalize(str))

\* C33 as stated: _token_overlap and _score_match are symmetric in their
\* two arguments, return a score in [0,1], return 1.0 for any two strings
\* whose normalized forms are identical and 0.0 for strings with no word
\* in common
C33_OverlapAsStated ==
    /\ \A i \in 1..Len(overlap_calls) :
          LET c == overlap_calls[i]
          IN  /\ c.score.den > 0
              /\ 0 <= c.score.num /\ c.score.num <= c.score.den
              /\ Normalize(c.a) = Normalize(c.b) => c.score.num = c.score.den
              /\ Words(c.a) \cap Words(c.b) = {} => c.score.num = 0
    /\ \A i, j \in 1..Len(overlap_calls) :
          LET c == overlap_calls[i]
              d == overlap_calls[j]
          IN  (c.fn = d.fn /\ c.a = d.b /\ c.b = d.a) => SameScore(c.score, d.score)

\* C33 (amended): _token_overlap is symmetric in its two arguments and
\* returns a score in [0,1]; the score is 1.0 for two strings whose
\* normalized forms are identical and hold at least one word, and 0.0 for
\* strings with no word in common, strings without a word included;
\* _score_match returns the score of _token_overlap when its first
\* argument is already normalized
C33_Overlap ==
    /\ \A i \in 1..Len(overlap_calls) :
          LET c == overlap_calls[i]
          IN  /\ c.score.den > 0
              /\ 0 <= c.score.num /\ c.score.num <= c.score.den
              /\ c.fn = "_token_overlap" =>
                    /\ (Normalize(c.a) = Normalize(c.b) /\ Words(c.a) # {})
                          => c.score.num = c.score.den
                    /\ Words(c.a) \cap Words(c.b) = {} => c.score.num = 0
    /\ \A i, j \in 1..Len(overlap_calls) :
          LET c == overlap_calls[i]
              d == overlap_calls[j]
          IN  /\ (c.fn = "_token_overlap" /\ d.fn = "_token_overlap"
                     /\ c.a = d.b /\ c.b = d.a)
                    => SameScore(c.score, d.score)
              /\ (c.fn = "_token_overlap" /\ d.fn = "_score_match"
                     /\ c.a = d.a /\ c.b = d.b /\ d.a = Normalize(d.a))
                    => SameScore(c.score, d.score)

C33_Witness ==
    /\ Len(overlap_calls) = 2
    /\ overlap_calls[1] =
         [fn |-> "_token_overlap", a |-> FirstNameLabel, b |-> FirstNameKey,
          score |-> Ratio(2, 2)]
    /\ overlap_calls[2] =
         [fn |-> "_token_overlap", a |-> FirstNameKey, b |-> FirstNameLabel,
          score |-> Ratio(2, 2)]


\* The error types a page indicates by its URL, by a displayed element,
\* by a phrase of its text
UrlTypes(pg) ==
    (IF pg.url = "checkpoint" THEN {CAPTCHA} ELSE {})
    \cup (IF pg.url = "login" THEN {SESSION_TIMEOUT} ELSE {})
DomTypes(pg) ==
    (IF pg.captcha_element THEN {CAPTCHA} ELSE {})
    \cup (IF pg.login_form THEN {SESSION_TIMEOUT} ELSE {})
TextTypes(pg) ==
    (IF "captcha" \in pg.phrases THEN {CAPTCHA} ELSE {})
    \cup (IF "rate_limit" \in pg.phrases THEN {RATE_LIMIT} ELSE {})
    \cup (IF "session" \in pg.phrases THEN {SESSION_TIMEOUT} ELSE {})
    \cup (IF "network" \in pg.phrases THEN {NETWORK_ERROR} ELSE {})
    \cup (IF "apply" \notin pg.phrases THEN {FORM_NOT_FOUND} ELSE {})

\* The types indicated at the strongest level of evidence the page has
Strongest(pg) ==
    IF UrlTypes(pg) # {} THEN UrlTypes(pg)
    ELSE IF DomTypes(pg) # {} THEN DomTypes(pg)
    ELSE TextTypes(pg)

\* C34: a type the URL of the page indicates is the type detect_error
\* returns, whatever elements are displayed and whatever phrases the text
\* holds: SessionTimeout on the login URL; and when CAPTCHA is one of the
\* types indicated at the strongest level of evidence the page has,
\* detect_error returns CAPTCHA
C34_UrlEvidenceFirst ==
    [][detects' = detects + 1 =>
          \E returned \in ErrorType :
             /\ seen' = seen \cup {returned}
             /\ UrlTypes(page) # {} => returned \in UrlTypes(page)
             /\ CAPTCHA \in Strongest(page) => returned = CAPTCHA]_vars


\* C35: whenever a job is over the statistics agree with the persisted
\* records: applied_count, failed_count and skipped_count are the numbers
\* of rows logged with status Applied, Failed and Skipped
C35_StatisticsMatchRecords ==
    jpc \in {"loop", "finished"} =>
        /\ applied_count = CopiesIn("Applied", records)
        /\ failed_count = CopiesIn("Failed", records)
        /\ skipped_count = CopiesIn("Skipped", records)


\* C36: submit_application returns true only from an iteration that
\* clicked a button and then found a confirmation marker; neither the
\* step cap nor a missing button makes it return true
C36_TrueOnlyWhenConfirmed ==
    [][(u_pc = "loop" /\ u_pc' = "done" /\ u_result') =>
          \E button \in Buttons \ {"none"}, pg \in Pages, readable \in BOOLEAN :
             SubmitStep(button, pg, readable, TRUE)]_vars


\* C37: the backoff sleeps of the outer recovery loop of apply_to_job
\* grow by the multiplier up to the cap from one RateLimit or NetworkError
\* classification to the next, so the sleep that follows k earlier ones is
\* at least the initial backoff grown k times: the recovery call made by
\* the form fill does not take the backoff of the outer call back
C37_OuterBackoffGrows ==
    [][(jpc = "o_detect" /\ strategy' = IncreaseBackoff(strategy, config)) =>
          GetBackoffTime(strategy, config) >=
             Min(config.initial_backoff
                    * Pow(config.backoff_multiplier, outer_attempt),
                 config.max_backoff)]_vars


\* C38: a max_retries override holds for its call only: between calls the
\* manager has the max_retries it was configured with, which a call
\* without override then uses; and the loop of a call started with the
\* override 0 runs with the bound 0, one attempt
C38_OverrideThisCallOnly ==
    /\ [](pc = "idle" => config.max_retries = MaxRetriesBound)
    /\ [][StartCall(0) => config'.max_retries = 0]_vars


\* C39: a CAPTCHA pause is released as resumed only by a request_resume
\* issued after the pause callback of that pause was invoked.  Event.wait
\* returns True at once when the flag is already set, so the claim holds
\* exactly when the flag is clear at the moment the worker leaves the
\* callback and enters the wait, and a wait that ends as resumed was
\* preceded by a request_resume made while the worker was waiting
C39_ResumeOnlyAfterCallback ==
    [][(pc = "captcha_callback" /\ pc' = "captcha_wait") =>
          ~captcha_resume_event']_vars


\* C40: attempt_with_recovery never sleeps a backoff that no invocation
\* of the action follows: after every time.sleep(backoff) the loop
\* condition lets the worker invoke the action once more
C40_SleepThenInvoke ==
    [][(pc = "detect" /\ Len(sleeps') = Len(sleeps) + 1) => pc' = "action"]_vars

====
